---------------------------- MODULE Spec2Model ----------------------------
(***************************************************************************)
(* County-level election data integration: the scripts clean_standardize,  *)
(* data_integration, add_usda_codes and temporal_matching, modelled as     *)
(* state machines over tables.                                              *)
(*                                                                         *)
(* A table (a pandas DataFrame) is a record [cols, rows]: cols is the      *)
(* sequence of column names and rows a sequence of functions from the      *)
(* column names to cells.                                                  *)
(* A cell is a tuple: <<>> is a missing value (NaN / None), <<v>> holds v. *)
(* Text is a sequence of one-character strings, so that trimming, prefix   *)
(* tests and parsing are computed and not assumed.  Python's None for a    *)
(* whole table is <<>> and a table t that is present is <<t>>.             *)
(***************************************************************************)
EXTENDS Integers, Sequences, FiniteSets, TLC

VARIABLES
    script,      \* which script's main() is running
    pc,          \* position of main(): the stage to run next
    trace,       \* the function whose exception main() caught ("" when none)
    fs,          \* the files: name -> <<>> (absent) or <<table>>
    elections,   \* main's local: the election table (or None)
    fips,        \* clean_standardize main: the FIPS reference table (or None)
    issues,      \* clean_standardize main: the issue list of quality_checks
    unmatched,   \* add_fips_codes: the notice it printed about unmatched
                 \* counties (or None when it printed none)
    qc_df,       \* the table main passed to quality_checks, as that object is
                 \* after the call (or None before it)
    census,      \* data_integration main: combined Census table (or None)
    bea,         \* data_integration main: combined BEA table (or None)
    integrated,  \* data_integration / add_usda_codes main: the merged table
    master,      \* add_usda_codes main: the master dataset
    usda,        \* add_usda_codes main: the raw USDA table
    usda_codes,  \* add_usda_codes main: processed USDA codes (or None)
    df,          \* temporal_matching main: the table being enriched
    prev         \* the tables the stages so far were called with, in order

vars == <<script, pc, trace, fs, elections, fips, issues, qc_df, unmatched, census, bea,
          integrated, master, usda, usda_codes, df, prev>>

cleanLocals == <<fips, issues, qc_df, unmatched>>
integLocals == <<census, bea>>
usdaLocals == <<master, usda, usda_codes>>

----------------------------------------------------------------------------
(* Cells, tables and text *)

NaN == <<>>
None == <<>>
Some(v) == <<v>>
isna(c) == c = <<>>
notna(c) == c # <<>>
Val(c) == c[1]

Range(s) == {s[i] : i \in 1..Len(s)}

\* a table: its column names in order, and its rows as an explicit sequence
Table(cs, rs) == [cols |-> cs, rows |-> SubSeq(rs, 1, Len(rs))]
EmptyTable == Table(<<>>, <<>>)
ColSet(t) == Range(t.cols)
NRows(t) == Len(t.rows)

\* the indices of S in ascending order
RECURSIVE SortedSeq(_)
SortedSeq(S) ==
    IF S = {} THEN <<>>
    ELSE LET m == CHOOSE x \in S : \A y \in S : x <= y
         IN  <<m>> \o SortedSeq(S \ {m})

\* df[[c1, c2, ...]]: the listed columns, in the listed order
Select(t, cs) == Table(cs, [i \in 1..NRows(t) |-> [c \in Range(cs) |-> t.rows[i][c]]])

Min(S) == CHOOSE x \in S : \A y \in S : x <= y
Max(S) == CHOOSE x \in S : \A y \in S : x >= y

RECURSIVE SeqFilter(_, _)
SeqFilter(s, keep) ==
    IF s = <<>> THEN <<>>
    ELSE IF Head(s) \in keep THEN <<Head(s)>> \o SeqFilter(Tail(s), keep)
    ELSE SeqFilter(Tail(s), keep)

RECURSIVE Concat(_)
Concat(ss) == IF ss = <<>> THEN <<>> ELSE Head(ss) \o Concat(Tail(ss))

\* Python's str.strip(): the characters it removes when given no argument
Whitespace == {" ", "\t", "\n", "\r", "\f"}

\* str.strip(chars): drop the leading and trailing characters that are in chars
StrStrip(s, chars) ==
    LET keep == {i \in 1..Len(s) : s[i] \notin chars}
    IN  IF keep = {} THEN <<>> ELSE SubSeq(s, Min(keep), Max(keep))

\* str.lstrip() in place of str.strip(): trailing whitespace is kept
CellStrip_lstrip(c) ==
    IF isna(c) THEN NaN
    ELSE LET s == Val(c)
             keep == {i \in 1..Len(s) : s[i] \notin Whitespace}
         IN  Some(IF keep = {} THEN <<>> ELSE SubSeq(s, Min(keep), Len(s)))

\* Series.str.strip(): a missing value stays missing
CellStrip(c) == IF isna(c) THEN NaN ELSE Some(StrStrip(Val(c), Whitespace))

----------------------------------------------------------------------------
(* clean_standardize.py: standardize_county_names *)

\* a name_fixes with a chained entry, as a slip in the alias table would give
name_fixes_chained ==
    { <<<<"S","t","."," ","J","o","h","n","s">>, <<"S","t","."," ","J","o","h","n","s">>>>,
      <<<<"S","a","i","n","t"," ","J","o","h","n","s">>, <<"S","t"," ","J","o","h","n","s">>>>,
      <<<<"S","t"," ","J","o","h","n","s">>, <<"S","t","."," ","J","o","h","n","s">>>>,
      <<<<"S","t","."," ","L","u","c","i","e">>, <<"S","t","."," ","L","u","c","i","e">>>>,
      <<<<"S","a","i","n","t"," ","L","u","c","i","e">>, <<"S","t","."," ","L","u","c","i","e">>>>,
      <<<<"S","t"," ","L","u","c","i","e">>, <<"S","t","."," ","L","u","c","i","e">>>>,
      <<<<"M","i","a","m","i","-","D","a","d","e">>, <<"M","i","a","m","i","-","D","a","d","e">>>>,
      <<<<"D","a","d","e">>, <<"M","i","a","m","i","-","D","a","d","e">>>>,
      <<<<"M","i","a","m","i"," ","D","a","d","e">>, <<"M","i","a","m","i","-","D","a","d","e">>>>,
      <<<<"D","e","S","o","t","o">>, <<"D","e","s","o","t","o">>>>,
      <<<<"D","e"," ","S","o","t","o">>, <<"D","e","s","o","t","o">>>> }

\* the alias table: <<variant, canonical>> pairs
name_fixes ==
    { <<<<"S","t","."," ","J","o","h","n","s">>, <<"S","t","."," ","J","o","h","n","s">>>>,
      <<<<"S","a","i","n","t"," ","J","o","h","n","s">>, <<"S","t","."," ","J","o","h","n","s">>>>,
      <<<<"S","t"," ","J","o","h","n","s">>, <<"S","t","."," ","J","o","h","n","s">>>>,
      <<<<"S","t","."," ","L","u","c","i","e">>, <<"S","t","."," ","L","u","c","i","e">>>>,
      <<<<"S","a","i","n","t"," ","L","u","c","i","e">>, <<"S","t","."," ","L","u","c","i","e">>>>,
      <<<<"S","t"," ","L","u","c","i","e">>, <<"S","t","."," ","L","u","c","i","e">>>>,
      <<<<"M","i","a","m","i","-","D","a","d","e">>, <<"M","i","a","m","i","-","D","a","d","e">>>>,
      <<<<"D","a","d","e">>, <<"M","i","a","m","i","-","D","a","d","e">>>>,
      <<<<"M","i","a","m","i"," ","D","a","d","e">>, <<"M","i","a","m","i","-","D","a","d","e">>>>,
      <<<<"D","e","S","o","t","o">>, <<"D","e","s","o","t","o">>>>,
      <<<<"D","e"," ","S","o","t","o">>, <<"D","e","s","o","t","o">>>> }

\* replace(dict, regex=True): a key matches anywhere at the start of the value
Replace_prefix(c, fixes) ==
    LET hits == {p \in fixes : notna(c) /\ Len(p[1]) <= Len(Val(c))
                                /\ SubSeq(Val(c), 1, Len(p[1])) = p[1]}
    IN  IF hits # {}
        THEN Some((CHOOSE p \in hits : \A q \in hits : Len(q[1]) <= Len(p[1]))[2])
        ELSE c

\* Series.replace(dict): a cell equal to a key becomes that key's value, every
\* other cell (a missing one too) is kept; one pass, the whole value compared
Replace(c, fixes) ==
    IF notna(c) /\ \E p \in fixes : p[1] = Val(c)
    THEN Some((CHOOSE p \in fixes : p[1] = Val(c))[2])
    ELSE c

\* a result of a call: raised, or the value returned
Raised == [raised |-> TRUE, value |-> EmptyTable]
Returned(v) == [raised |-> FALSE, value |-> v]

\* df['County_Original'] = df['County']; strip; replace.  Reading df['County']
\* of a table without that column raises KeyError.
standardize_county_names(t) ==
    IF "County" \notin ColSet(t) THEN Raised
    ELSE LET cs == IF "County_Original" \in ColSet(t) THEN t.cols
                   ELSE Append(t.cols, "County_Original")
         IN  Returned(Table(cs,
                [i \in 1..NRows(t) |->
                    [c \in Range(cs) |->
                        IF c = "County_Original" THEN t.rows[i]["County"]
                        ELSE IF c = "County"
                             THEN Replace(CellStrip(t.rows[i]["County"]), name_fixes)
                             ELSE t.rows[i][c]]]))

----------------------------------------------------------------------------
(* DataFrame.merge(how='left') *)

\* only the first right-hand row of a key is matched, as after a
\* drop_duplicates on the key
MatchIdx_first(r, rk, k) ==
    LET all == {j \in 1..NRows(r) : r.rows[j][rk] = k}
    IN  IF all = {} THEN <<>> ELSE <<Min(all)>>

\* the right-hand rows whose key cell equals k, in the right table's order;
\* pandas matches a missing key with a missing key
MatchIdx(r, rk, k) == SortedSeq({j \in 1..NRows(r) : r.rows[j][rk] = k})

\* a left row joined with a right row (rrow = <<>>: no match, the right-hand
\* columns are missing values)
JoinRow(lrow, rrow, lcols, cs) ==
    [c \in Range(cs) |->
        IF c \in Range(lcols) THEN lrow[c]
        ELSE IF rrow = <<>> THEN NaN ELSE rrow[1][c]]

\* how='inner' in place of how='left': a left row without a match is dropped
MergeRows_inner(l, r, lk, rk, cs) ==
    Concat([i \in 1..NRows(l) |->
        LET m == MatchIdx(r, rk, l.rows[i][lk])
        IN  [n \in 1..Len(m) |-> JoinRow(l.rows[i], <<r.rows[m[n]]>>, l.cols, cs)]])

\* the rows of a left merge: every left row in order, once per matching
\* right row, or once with missing values when nothing matches
MergeRows(l, r, lk, rk, cs) ==
    Concat([i \in 1..NRows(l) |->
        LET m == MatchIdx(r, rk, l.rows[i][lk])
        IN  IF m = <<>> THEN << JoinRow(l.rows[i], <<>>, l.cols, cs) >>
            ELSE [n \in 1..Len(m) |-> JoinRow(l.rows[i], <<r.rows[m[n]]>>, l.cols, cs)]])

\* l.merge(r, left_on=lk, right_on=rk, how='left'): the left columns, then
\* the right columns that the left does not have (the shared key among them)
MergeLeft(l, r, lk, rk) ==
    LET cs == l.cols \o SeqFilter(r.cols, Range(r.cols) \ Range(l.cols))
    IN  Table(cs, MergeRows(l, r, lk, rk, cs))

\* a column other than the key that both tables have: pandas renames both
\* (suffixes _x, _y), so neither name is a column of the result
Overlap(l, r, lk, rk) == (ColSet(l) \cap ColSet(r)) \ (IF lk = rk THEN {lk} ELSE {})

----------------------------------------------------------------------------
(* clean_standardize.py: load_data, add_fips_codes *)

\* load_data(): (elections, fips); a missing election file gives (None, None)
load_data(files) ==
    IF files["All_Elections_Combined"] = None THEN <<None, None>>
    ELSE <<files["All_Elections_Combined"], files["florida_fips_codes"]>>

\* the column order add_fips_codes returns
FipsCols(t) ==
    IF "County_Original" \in ColSet(t)
    THEN <<"FIPS", "County", "County_Original", "Year", "Election_Date",
           "Registered_Voters", "Votes_Cast", "Turnout_Percent">>
    ELSE <<"FIPS", "County", "Year", "Election_Date",
           "Registered_Voters", "Votes_Cast", "Turnout_Percent">>

\* add_fips_codes(elections_df, fips_df); f is None or a table
add_fips_codes(e, f) ==
    IF f = None THEN Returned(e)
    ELSE IF ~({"FIPS", "County_Name"} \subseteq ColSet(Val(f))) THEN Raised
    ELSE IF "County" \notin ColSet(e) THEN Raised
    ELSE LET ref == Select(Val(f), <<"FIPS", "County_Name">>)
             merged == MergeLeft(e, ref, "County", "County_Name")
         IN  IF Overlap(e, ref, "County", "County_Name") # {} THEN Raised
             ELSE IF ~(Range(FipsCols(merged)) \subseteq ColSet(merged)) THEN Raised
             ELSE Returned(Select(merged, FipsCols(merged)))

\* a variant that lists the County of every row without FIPS
Unmatched_per_row(t) ==
    LET idx == {i \in 1..NRows(t) : isna(t.rows[i]["FIPS"])}
        s == SortedSeq(idx)
    IN  [counties |-> [n \in 1..Len(s) |-> t.rows[s[n]]["County"]],
         records |-> Cardinality(idx)]

\* the unmatched report: the distinct County values of the rows without FIPS
\* in order of first appearance, and the number of such rows
Unmatched(t) ==
    LET idx == {i \in 1..NRows(t) : isna(t.rows[i]["FIPS"])}
        first == {i \in idx : \A j \in idx : j < i => t.rows[j]["County"] # t.rows[i]["County"]}
        s == SortedSeq(first)
    IN  [counties |-> [n \in 1..Len(s) |-> t.rows[s[n]]["County"]],
         records |-> Cardinality(idx)]

\* what add_fips_codes prints about unmatched counties: nothing when the
\* reference table is absent, when the merge or the read of FIPS raises, or
\* when every row has a FIPS; else the names and the number of rows
Notice(e, f) ==
    IF f = None THEN None
    ELSE IF ~({"FIPS", "County_Name"} \subseteq ColSet(Val(f))) THEN None
    ELSE IF "County" \notin ColSet(e) THEN None
    ELSE LET ref == Select(Val(f), <<"FIPS", "County_Name">>)
             merged == MergeLeft(e, ref, "County", "County_Name")
         IN  IF Overlap(e, ref, "County", "County_Name") # {} THEN None
             ELSE IF Len(Unmatched(merged).counties) > 0 THEN Some(Unmatched(merged))
             ELSE None

-----------------------------------------------------------------------------
(* clean_standardize.py: quality_checks.  Turnout_Percent is held in tenths *)
(* of a percent, so 700 is 70.0.                                           *)

ExpectedCounties == 67
LowTurnout == 300
HighTurnout == 950
Tolerance == 5

\* the columns quality_checks reads by name
QcColumns == {"Year", "County", "Turnout_Percent", "Votes_Cast", "Registered_Voters"}

Column(t, c) == [i \in 1..NRows(t) |-> t.rows[i][c]]
\* a variant that records whether the column has a missing value, not how many
NullCount_any(t, c) == IF \E i \in 1..NRows(t) : isna(t.rows[i][c]) THEN 1 ELSE 0

NullCount(t, c) == Cardinality({i \in 1..NRows(t) : isna(t.rows[i][c])})

\* df.isnull().sum(): one issue per column with a missing value, in column order
MissingIssues(t) ==
    LET cs == SeqFilter(t.cols, {c \in ColSet(t) : NullCount(t, c) > 0})
    IN  [n \in 1..Len(cs) |->
            [category |-> "Missing values", key |-> <<cs[n]>>, value |-> NullCount(t, cs[n])]]

\* df.groupby('Year')['County'].nunique(): missing years and counties do not count
YearsOf(t) == {Val(t.rows[i]["Year"]) : i \in {j \in 1..NRows(t) : notna(t.rows[j]["Year"])}}
\* a variant that counts the rows of the year, not its distinct counties
CountyCount_rows(t, y) ==
    Cardinality({j \in 1..NRows(t) : t.rows[j]["Year"] = Some(y) /\ notna(t.rows[j]["County"])})

CountyCount(t, y) ==
    Cardinality({t.rows[i]["County"] :
        i \in {j \in 1..NRows(t) : t.rows[j]["Year"] = Some(y) /\ notna(t.rows[j]["County"])}})

CardinalityIssues(t) ==
    LET ys == SortedSeq({y \in YearsOf(t) : CountyCount(t, y) # ExpectedCounties})
    IN  [n \in 1..Len(ys) |->
            [category |-> "County count", key |-> <<ys[n]>>, value |-> CountyCount(t, ys[n])]]

\* a variant that takes a turnout of exactly 30 for a low one
low_turnout_inclusive(t) ==
    SortedSeq({i \in 1..NRows(t) :
        notna(t.rows[i]["Turnout_Percent"]) /\ Val(t.rows[i]["Turnout_Percent"]) <= LowTurnout})

\* df[df['Turnout_Percent'] < 30] and df[df['Turnout_Percent'] > 95]: row numbers
low_turnout(t) ==
    SortedSeq({i \in 1..NRows(t) :
        notna(t.rows[i]["Turnout_Percent"]) /\ Val(t.rows[i]["Turnout_Percent"]) < LowTurnout})
high_turnout(t) ==
    SortedSeq({i \in 1..NRows(t) :
        notna(t.rows[i]["Turnout_Percent"]) /\ Val(t.rows[i]["Turnout_Percent"]) > HighTurnout})

\* only the low-turnout rows are appended to issues; the high ones are printed
LowTurnoutIssues(t) ==
    LET s == low_turnout(t)
    IN  [n \in 1..Len(s) |->
            [category |-> "Low turnout",
             key |-> <<t.rows[s[n]]["County"], t.rows[s[n]]["Year"]>>,
             value |-> Val(t.rows[s[n]]["Turnout_Percent"])]]

\* a float that is +inf (a positive number divided by 0)
Inf == 10 ^ 9

\* n / d rounded to the nearest integer, ties to even, as round() does
RoundRatio(n, d) ==
    LET q == n \div d
        r == n % d
    IN  IF 2 * r > d THEN q + 1
        ELSE IF 2 * r = d THEN q + (q % 2)
        ELSE q

\* round(votes / registered * 100, 1), in tenths of a percent
RoundTenths(votes, registered) == RoundRatio(votes * 1000, registered)

\* df['Calculated_Turnout']: missing operands and 0/0 give NaN, x/0 gives inf
Calculated_Turnout(row) ==
    IF isna(row["Votes_Cast"]) \/ isna(row["Registered_Voters"]) THEN NaN
    ELSE IF Val(row["Registered_Voters"]) = 0
         THEN (IF Val(row["Votes_Cast"]) = 0 THEN NaN ELSE Some(Inf))
         ELSE Some(RoundTenths(Val(row["Votes_Cast"]), Val(row["Registered_Voters"])))

Abs(x) == IF x < 0 THEN -x ELSE x

\* df['Turnout_Difference']
Turnout_Difference(row) ==
    IF isna(Calculated_Turnout(row)) \/ isna(row["Turnout_Percent"]) THEN NaN
    ELSE Some(Abs(Val(Calculated_Turnout(row)) - Val(row["Turnout_Percent"])))

\* df[df['Turnout_Difference'] > 0.5]: printed (the first five), not appended
mismatches(t) ==
    SortedSeq({i \in 1..NRows(t) :
        notna(Turnout_Difference(t.rows[i])) /\ Val(Turnout_Difference(t.rows[i])) > Tolerance})

\* df.duplicated(subset=['County', 'Year'], keep=False): the rows that share
\* their (County, Year) with another row; missing values compare equal
duplicates(t) ==
    {i \in 1..NRows(t) : \E j \in 1..NRows(t) :
        /\ j # i
        /\ t.rows[j]["County"] = t.rows[i]["County"]
        /\ t.rows[j]["Year"] = t.rows[i]["Year"]}

\* one issue carrying dup_count when any row is a duplicate
DuplicateIssues(t) ==
    IF duplicates(t) = {} THEN <<>>
    ELSE << [category |-> "Duplicate records", key |-> <<>>,
             value |-> Cardinality(duplicates(t))] >>

\* the caller's table after df['Calculated_Turnout'] = ... and
\* df['Turnout_Difference'] = ... : both assignments act on the object passed in
WithHelperColumns(t) ==
    LET add(cs, c) == IF c \in Range(cs) THEN cs ELSE Append(cs, c)
        cs == add(add(t.cols, "Calculated_Turnout"), "Turnout_Difference")
    IN  Table(cs, [i \in 1..NRows(t) |->
            [c \in Range(cs) |->
                IF c = "Calculated_Turnout" THEN Calculated_Turnout(t.rows[i])
                ELSE IF c = "Turnout_Difference" THEN Turnout_Difference(t.rows[i])
                ELSE t.rows[i][c]]])

\* a variant that returns the table with its helper columns
DropHelperColumns_keep(t) == t

\* df.drop(['Calculated_Turnout', 'Turnout_Difference'], axis=1): a new table
DropHelperColumns(t) ==
    Select(t, SeqFilter(t.cols, ColSet(t) \ {"Calculated_Turnout", "Turnout_Difference"}))

\* quality_checks(df): (df, issues), or KeyError when a column it reads by
\* name is absent; arg is the caller's table object after the call
quality_checks(t) ==
    IF ~(QcColumns \subseteq ColSet(t))
    THEN [raised |-> TRUE, value |-> EmptyTable, issues |-> <<>>, arg |-> t]
    ELSE [raised |-> FALSE,
          value |-> DropHelperColumns(WithHelperColumns(t)),
          issues |-> MissingIssues(t) \o CardinalityIssues(t) \o LowTurnoutIssues(t)
                     \o DuplicateIssues(t),
          arg |-> WithHelperColumns(t)]

\* create_summary_statistics(df) and save_cleaned_data(df) read these columns
SummaryColumns == {"Year", "County", "Votes_Cast", "Registered_Voters", "Turnout_Percent"}

\* the columns of Turnout_Summary_by_Year.csv and data_dictionary.csv; their
\* rows (aggregates, descriptions) are not part of this model
TurnoutSummary ==
    Table(<<"Year", "Counties", "Total_Registered", "Total_Votes", "Avg_Turnout",
            "Median_Turnout", "Std_Dev", "Min_Turnout", "Max_Turnout">>, <<>>)
DataDictionary ==
    Table(<<"Variable_Name", "Data_Type", "Description", "Source", "Notes",
            "Value_Range">>, <<>>)

----------------------------------------------------------------------------
(* Text tests and conversions used by the source-table adapters *)

StartsWith(s, p) == Len(p) <= Len(s) /\ SubSeq(s, 1, Len(p)) = p
EndsWith(s, p) == Len(p) <= Len(s) /\ SubSeq(s, Len(s) - Len(p) + 1, Len(s)) = p

Upper == <<"A","B","C","D","E","F","G","H","I","J","K","L","M",
           "N","O","P","Q","R","S","T","U","V","W","X","Y","Z">>
Lowers == <<"a","b","c","d","e","f","g","h","i","j","k","l","m",
            "n","o","p","q","r","s","t","u","v","w","x","y","z">>
LowerOf == [c \in Range(Upper) |-> Lowers[CHOOSE i \in 1..26 : Upper[i] = c]]
Lower(c) == IF c \in DOMAIN LowerOf THEN LowerOf[c] ELSE c
StrLower(s) == [i \in 1..Len(s) |-> Lower(s[i])]
UpperOf == [c \in Range(Lowers) |-> Upper[CHOOSE i \in 1..26 : Lowers[i] = c]]
StrUpper(s) == [i \in 1..Len(s) |-> IF s[i] \in DOMAIN UpperOf THEN UpperOf[s[i]] ELSE s[i]]

\* sub occurs in s
Contains(s, sub) ==
    \E i \in 0..(Len(s) - Len(sub)) : \A k \in 1..Len(sub) : s[i + k] = sub[k]

\* Series.str.contains(pat, case=False, na=False) for a pattern of plain text
ContainsNoCase(c, pat) ==
    /\ notna(c)
    /\ LET s == StrLower(Val(c))
           p == StrLower(pat)
       IN  Contains(s, p)

Digits == <<"0","1","2","3","4","5","6","7","8","9">>
IsDigit(c) == \E d \in 1..10 : Digits[d] = c
DigitVal(c) == (CHOOSE d \in 1..10 : Digits[d] = c) - 1
IsNumeral(s) == s # <<>> /\ \A i \in 1..Len(s) : IsDigit(s[i])

\* the number a numeral denotes
RECURSIVE NumeralValue(_)
NumeralValue(s) ==
    IF s = <<>> THEN 0
    ELSE 10 * NumeralValue(SubSeq(s, 1, Len(s) - 1)) + DigitVal(s[Len(s)])

\* pd.to_numeric(x, errors='coerce') of a text cell: a numeral gives its
\* number, any other text (such as "(D)") and a missing cell give NaN
ToNumeric(c) ==
    IF notna(c) /\ IsNumeral(Val(c)) THEN Some(NumeralValue(Val(c))) ELSE NaN


\* a < b for two numerals compared as Python compares strings
RECURSIVE NumeralLess(_, _)
NumeralLess(a, b) ==
    IF b = <<>> THEN FALSE
    ELSE IF a = <<>> THEN TRUE
    ELSE IF Head(a) = Head(b) THEN NumeralLess(Tail(a), Tail(b))
    ELSE DigitVal(Head(a)) < DigitVal(Head(b))
----------------------------------------------------------------------------
(* The wide-form BEA adapter: geography filter, line filter, year column *)

\* income['GeoFIPS'].str.strip().str.strip('"').str.strip()
GeoFIPS_clean(c) ==
    IF isna(c) THEN NaN
    ELSE Some(StrStrip(StrStrip(StrStrip(Val(c), Whitespace), {"\""}), Whitespace))

\* len == 5, startswith('12'), != '12000'
IsFloridaCounty(code) ==
    /\ notna(code)
    /\ Len(Val(code)) = 5
    /\ StartsWith(Val(code), <<"1", "2">>)
    /\ Val(code) # <<"1", "2", "0", "0", "0">>

\* the rows kept by the geography filter, as row numbers of the file
CountyRows(t) == {j \in 1..NRows(t) : IsFloridaCounty(GeoFIPS_clean(t.rows[j]["GeoFIPS"]))}

\* .astype(int) raises ValueError when a kept code is not a numeral
AsTypeIntRaises(t) ==
    \E j \in CountyRows(t) : ~IsNumeral(Val(GeoFIPS_clean(t.rows[j]["GeoFIPS"])))

FIPSOf(row) == Some(NumeralValue(Val(GeoFIPS_clean(row["GeoFIPS"]))))

\* the rows of the wanted line: Description, stripped, contains the text
LineRows(t, line) ==
    {j \in CountyRows(t) : ContainsNoCase(CellStrip(t.rows[j]["Description"]), line)}

\* the part of the adapter that does not depend on the year: the county rows
\* of the wanted line with their integer FIPS; None when the file is absent or
\* lacks GeoFIPS or Description, and when astype(int) raises
BeaLine(file, line) ==
    IF file = None THEN None
    ELSE LET t == Val(file) IN
         IF "GeoFIPS" \notin ColSet(t) THEN None
         ELSE IF AsTypeIntRaises(t) THEN None
         ELSE IF "Description" \notin ColSet(t) THEN None
         ELSE LET idx == SortedSeq(LineRows(t, line))
              IN  Some(Table(t.cols \o <<"FIPS">>,
                    [n \in 1..Len(idx) |->
                        [c \in ColSet(t) \cup {"FIPS"} |->
                            IF c = "FIPS" THEN FIPSOf(t.rows[idx[n]])
                            ELSE t.rows[idx[n]][c]]]))

\* income[['FIPS', bea_year]] renamed and made numeric; None when the label
\* is not a column
BeaYear(lines, label, name) ==
    IF lines = None THEN None
    ELSE LET t == Val(lines) IN
         IF label \notin ColSet(t) THEN None
         ELSE Some(Table(<<"FIPS", name>>,
                [n \in 1..NRows(t) |->
                    [c \in {"FIPS", name} |->
                        IF c = "FIPS" THEN t.rows[n]["FIPS"]
                        ELSE ToNumeric(t.rows[n][label])]]))

PerCapitaLine == <<"P","e","r"," ","c","a","p","i","t","a"," ","p","e","r","s","o","n","a","l"," ","i","n","c","o","m","e">>
AllIndustryLine == <<"A","l","l"," ","i","n","d","u","s","t","r","y"," ","t","o","t","a","l">>
TotalEmploymentLine == <<"T","o","t","a","l"," ","e","m","p","l","o","y","m","e","n","t">>

----------------------------------------------------------------------------
(* temporal_matching.py: process_bea_temporal *)

\* every election year is given the latest label, as a single snapshot would
year_mapping_snapshot ==
    << <<2016, "2023">>, <<2018, "2023">>, <<2020, "2023">>,
       <<2022, "2023">>, <<2024, "2023">> >>

\* election year -> BEA year label, in the order the loop visits them
year_mapping ==
    << <<2016, "2016">>, <<2018, "2018">>, <<2020, "2020">>,
       <<2022, "2022">>, <<2024, "2023">> >>

\* elections[elections['Year'] == election_year]
RowsOfYear(t, y) ==
    Table(t.cols, [n \in 1..Cardinality({i \in 1..NRows(t) : t.rows[i]["Year"] = Some(y)}) |->
        t.rows[SortedSeq({i \in 1..NRows(t) : t.rows[i]["Year"] = Some(y)})[n]]])

\* year_data.merge(x, on='FIPS', how='left') when x is not None
MergeIfAny(t, x) == IF x = None THEN t ELSE MergeLeft(t, Val(x), "FIPS", "FIPS")

\* one pass of the loop: the year's rows with that year's income and GDP
YearData(t, m, income, gdp) ==
    MergeIfAny(
        MergeIfAny(RowsOfYear(t, m[1]), BeaYear(income, m[2], "Per_Capita_Income")),
        BeaYear(gdp, m[2], "GDP_Millions"))

\* a variant that keeps the columns every frame has, as join='inner' does
ConcatCols_inner(frames) ==
    IF frames = <<>> THEN <<>>
    ELSE SeqFilter(frames[1].cols,
                   {c \in ColSet(frames[1]) : \A k \in 1..Len(frames) : c \in ColSet(frames[k])})

\* the columns of pd.concat(frames): each frame's new columns, in order
RECURSIVE ConcatCols(_)
ConcatCols(frames) ==
    IF frames = <<>> THEN <<>>
    ELSE LET rest == ConcatCols(SubSeq(frames, 1, Len(frames) - 1))
             last == frames[Len(frames)]
         IN  rest \o SeqFilter(last.cols, ColSet(last) \ Range(rest))

\* pd.concat(frames, ignore_index=True): all rows, a column a frame lacks is NaN
PdConcat(frames) ==
    LET cs == ConcatCols(frames)
    IN  Table(cs, Concat([k \in 1..Len(frames) |->
            LET frame == frames[k]
            IN  [i \in 1..NRows(frame) |->
                    [c \in Range(cs) |->
                        IF c \in ColSet(frame) THEN frame.rows[i][c] ELSE NaN]]]))

\* a merge on FIPS of a table without a FIPS column raises KeyError
MergeRaises(t, income, gdp) ==
    /\ "FIPS" \notin ColSet(t)
    /\ \E k \in 1..Len(year_mapping) :
        \/ BeaYear(income, year_mapping[k][2], "Per_Capita_Income") # None
        \/ BeaYear(gdp, year_mapping[k][2], "GDP_Millions") # None

\* process_bea_temporal(elections)
process_bea_temporal(t, incomeFile, gdpFile) ==
    LET income == BeaLine(incomeFile, PerCapitaLine)
        gdp == BeaLine(gdpFile, AllIndustryLine)
        all_bea_data == [k \in 1..Len(year_mapping) |-> YearData(t, year_mapping[k], income, gdp)]
    IN  IF "Year" \notin ColSet(t) \/ MergeRaises(t, income, gdp) THEN Raised
        ELSE Returned(PdConcat(SubSeq(all_bea_data, 1, Len(all_bea_data))))
----------------------------------------------------------------------------
(* The Census ACS adapter (temporal_matching.add_census_data and           *)
(* data_integration.process_census_data share it line for line)            *)

\* the text of the column names that the adapters test character by character
ColumnText ==
    [c \in {"GEO_ID", "NAME", "B19013_001E", "B19013_001M", "B01003_001E",
            "B15003_001E", "B15003_022E", "B15003_023E", "B15003_024E",
            "B15003_025E", "B01002_001E", "2016", "2018", "2020", "2022", "2023",
            "GeoFIPS", "Description", "FIPS", "State", "County_Name", "Attribute",
            "Value", "RUCC_2023", "Population_2020", "Description_2023",
            "Rucc_2013"} |->
        CASE c = "GEO_ID" -> <<"G","E","O","_","I","D">> [] c = "NAME" -> <<"N","A","M","E">>
          [] c = "B19013_001E" -> <<"B","1","9","0","1","3","_","0","0","1","E">> [] c = "B19013_001M" -> <<"B","1","9","0","1","3","_","0","0","1","M">>
          [] c = "B01003_001E" -> <<"B","0","1","0","0","3","_","0","0","1","E">> [] c = "B15003_001E" -> <<"B","1","5","0","0","3","_","0","0","1","E">>
          [] c = "B15003_022E" -> <<"B","1","5","0","0","3","_","0","2","2","E">> [] c = "B15003_023E" -> <<"B","1","5","0","0","3","_","0","2","3","E">>
          [] c = "B15003_024E" -> <<"B","1","5","0","0","3","_","0","2","4","E">> [] c = "B15003_025E" -> <<"B","1","5","0","0","3","_","0","2","5","E">>
          [] c = "B01002_001E" -> <<"B","0","1","0","0","2","_","0","0","1","E">>
          [] c = "2016" -> <<"2","0","1","6">> [] c = "2018" -> <<"2","0","1","8">> [] c = "2020" -> <<"2","0","2","0">>
          [] c = "2022" -> <<"2","0","2","2">> [] c = "2023" -> <<"2","0","2","3">>
          [] c = "GeoFIPS" -> <<"G","e","o","F","I","P","S">> [] c = "Description" -> <<"D","e","s","c","r","i","p","t","i","o","n">>
          [] c = "FIPS" -> <<"F","I","P","S">> [] c = "State" -> <<"S","t","a","t","e">>
          [] c = "County_Name" -> <<"C","o","u","n","t","y","_","N","a","m","e">> [] c = "Attribute" -> <<"A","t","t","r","i","b","u","t","e">>
          [] c = "Value" -> <<"V","a","l","u","e">> [] c = "RUCC_2023" -> <<"R","U","C","C","_","2","0","2","3">>
          [] c = "Population_2020" -> <<"P","o","p","u","l","a","t","i","o","n","_","2","0","2","0">>
          [] c = "Description_2023" -> <<"D","e","s","c","r","i","p","t","i","o","n","_","2","0","2","3">>
          [] c = "Rucc_2013" -> <<"R","u","c","c","_","2","0","1","3">>]

\* [col for col in t.columns if code in col and col.endswith('E')]
EstimateCols(t, code) ==
    SeqFilter(t.cols, {c \in ColSet(t) :
        Contains(ColumnText[c], code) /\ EndsWith(ColumnText[c], <<"E">>)})

CountyGeoPrefix == <<"0","5","0","0","0","0","0","U","S","1","2">>

\* GEO_ID.str.startswith('0500000US12', na=False): row numbers kept
GeoRows(t) ==
    {j \in 1..NRows(t) : notna(t.rows[j]["GEO_ID"])
                         /\ StartsWith(Val(t.rows[j]["GEO_ID"]), CountyGeoPrefix)}

\* GEO_ID.str[-5:]
Last5(s) == SubSeq(s, IF Len(s) > 5 THEN Len(s) - 4 ELSE 1, Len(s))
GeoFIPSOf(row) == Some(NumeralValue(Last5(Val(row["GEO_ID"]))))
GeoAsTypeIntRaises(t) == \E j \in GeoRows(t) : ~IsNumeral(Last5(Val(t.rows[j]["GEO_ID"])))

\* one estimate column of one Census file as [FIPS, name]; None when the
\* file is absent, has no GEO_ID column, astype(int) raises, or no column
\* matches the code (IndexError)
CensusVar(file, code, name) ==
    IF file = None THEN None
    ELSE LET t == Val(file) IN
         IF "GEO_ID" \notin ColSet(t) THEN None
         ELSE IF GeoAsTypeIntRaises(t) THEN None
         ELSE IF EstimateCols(t, code) = <<>> THEN None
         ELSE LET idx == SortedSeq(GeoRows(t))
                  col == EstimateCols(t, code)[1]
              IN  Some(Table(<<"FIPS", name>>,
                    [n \in 1..Len(idx) |->
                        [c \in {"FIPS", name} |->
                            IF c = "FIPS" THEN GeoFIPSOf(t.rows[idx[n]])
                            ELSE ToNumeric(t.rows[idx[n]][col])]]))

\* to_numeric(edu[col[0]] if col else 0): a level without a column counts 0
LevelValue(t, row, code) ==
    IF EstimateCols(t, code) = <<>> THEN Some(0)
    ELSE ToNumeric(row[EstimateCols(t, code)[1]])

\* (Bachelors_Plus / Total_25plus * 100).round(2), in hundredths of a percent
Pct_Bachelors_Plus(t, row) ==
    LET total == LevelValue(t, row, <<"B","1","5","0","0","3","_","0","0","1">>)
        parts == << LevelValue(t, row, <<"B","1","5","0","0","3","_","0","2","2">>), LevelValue(t, row, <<"B","1","5","0","0","3","_","0","2","3">>),
                    LevelValue(t, row, <<"B","1","5","0","0","3","_","0","2","4">>), LevelValue(t, row, <<"B","1","5","0","0","3","_","0","2","5">>) >>
    IN  IF isna(total) \/ \E k \in 1..4 : isna(parts[k]) THEN NaN
        ELSE LET plus == Val(parts[1]) + Val(parts[2]) + Val(parts[3]) + Val(parts[4])
             IN  IF Val(total) = 0 THEN (IF plus = 0 THEN NaN ELSE Some(Inf))
                 ELSE Some(RoundRatio(plus * 10000, Val(total)))

\* the education file as [FIPS, Pct_Bachelors_Plus]; None as for CensusVar,
\* and when the total or the bachelor column is not found
CensusEducation(file) ==
    IF file = None THEN None
    ELSE LET t == Val(file) IN
         IF "GEO_ID" \notin ColSet(t) THEN None
         ELSE IF GeoAsTypeIntRaises(t) THEN None
         ELSE IF EstimateCols(t, <<"B","1","5","0","0","3","_","0","0","1">>) = <<>> \/ EstimateCols(t, <<"B","1","5","0","0","3","_","0","2","2">>) = <<>>
              THEN None
         ELSE LET idx == SortedSeq(GeoRows(t))
              IN  Some(Table(<<"FIPS", "Pct_Bachelors_Plus">>,
                    [n \in 1..Len(idx) |->
                        [c \in {"FIPS", "Pct_Bachelors_Plus"} |->
                            IF c = "FIPS" THEN GeoFIPSOf(t.rows[idx[n]])
                            ELSE Pct_Bachelors_Plus(t, t.rows[idx[n]])]]))

\* census_vars: the variables produced, in the order income, population, education
census_vars(files) ==
    LET all == << CensusVar(files["median_household_income_2020"], <<"B","1","9","0","1","3">>,
                            "Median_Household_Income"),
                  CensusVar(files["total_population_2020"], <<"B","0","1","0","0","3">>, "Total_Population"),
                  CensusEducation(files["educational_attainment_2020"]) >>
        got == SortedSeq({k \in 1..3 : all[k] # None})
    IN  [n \in 1..Len(got) |-> Val(all[got[n]])]

\* df.merge(x1).merge(x2)...: left merges on FIPS, one after the other
RECURSIVE MergeAll(_, _)
MergeAll(t, xs) ==
    IF xs = <<>> THEN t
    ELSE MergeAll(MergeLeft(t, Head(xs), "FIPS", "FIPS"), Tail(xs))

\* temporal_matching.add_census_data(df): the merges are outside the try
add_census_data(t, files) ==
    IF census_vars(files) # <<>> /\ "FIPS" \notin ColSet(t) THEN Raised
    ELSE Returned(MergeAll(t, census_vars(files)))

----------------------------------------------------------------------------
(* The USDA rural-urban codes *)

\* the decimal numeral of a natural number
RECURSIVE Decimal(_)
Decimal(n) == IF n < 10 THEN <<Digits[n + 1]>> ELSE Decimal(n \div 10) \o <<Digits[(n % 10) + 1]>>

\* usda['FIPS'].astype(str).str[:2]; a missing FIPS prints as 'nan'
\* a missing FIPS is taken for a Florida one
State_FIPS_keepna(c) ==
    IF isna(c) THEN <<"1","2">>
    ELSE IF Val(c) < 10 THEN Decimal(Val(c)) ELSE SubSeq(Decimal(Val(c)), 1, 2)

State_FIPS(c) ==
    IF isna(c) THEN <<"n","a">>
    ELSE IF Val(c) < 10 THEN Decimal(Val(c)) ELSE SubSeq(Decimal(Val(c)), 1, 2)

\* usda[usda['State_FIPS'] == '12']: row numbers kept
FloridaRows(t) == {j \in 1..NRows(t) : State_FIPS(t.rows[j]["FIPS"]) = <<"1", "2">>}

rucc_descriptions ==
    << "Metro - Large (1M+ pop)", "Metro - Medium (250K-1M pop)",
       "Metro - Small (<250K pop)", "Nonmetro - Urban (20K+, adjacent to metro)",
       "Nonmetro - Urban (20K+, not adjacent)",
       "Nonmetro - Urban (2.5-20K, adjacent to metro)",
       "Nonmetro - Urban (2.5-20K, not adjacent)",
       "Nonmetro - Rural (<2.5K, adjacent to metro)",
       "Nonmetro - Rural (<2.5K, not adjacent)" >>

\* Series.map(rucc_descriptions): a code that is no key gives NaN
Rural_Urban_Description(code) ==
    IF notna(code) /\ Val(code) \in 1..9 THEN Some(rucc_descriptions[Val(code)]) ELSE NaN

\* a variant that has a category for the codes of the scale only
categorize_scale(code) ==
    IF isna(code) THEN None
    ELSE IF Val(code) \in {1, 2, 3} THEN Some("Metropolitan")
    ELSE IF Val(code) \in {4, 5, 6, 7} THEN Some("Micropolitan/Small Urban")
    ELSE IF Val(code) \in {8, 9} THEN Some("Rural")
    ELSE None

categorize(code) ==
    IF isna(code) THEN None
    ELSE IF Val(code) \in {1, 2, 3} THEN Some("Metropolitan")
    ELSE IF Val(code) \in {4, 5, 6, 7} THEN Some("Micropolitan/Small Urban")
    ELSE Some("Rural")

RuccCols == <<"FIPS", "Rural_Urban_Code", "Rural_Urban_Description", "Urban_Rural_Category">>

\* [FIPS, code] rows with the description and the category added
WithRuccLabels(fipsCells, codes) ==
    Table(RuccCols,
        [n \in 1..Len(codes) |->
            [c \in Range(RuccCols) |->
                IF c = "FIPS" THEN fipsCells[n]
                ELSE IF c = "Rural_Urban_Code" THEN codes[n]
                ELSE IF c = "Rural_Urban_Description" THEN Rural_Urban_Description(codes[n])
                ELSE categorize(codes[n])]])

\* temporal_matching.add_usda_codes: florida_rucc, the rows of attribute
\* RUCC_2023 among the Florida rows
florida_rucc(u) ==
    LET idx == SortedSeq({j \in FloridaRows(u) : u.rows[j]["Attribute"] = Some(<<"R","U","C","C","_","2","0","2","3">>)})
    IN  WithRuccLabels([n \in 1..Len(idx) |-> u.rows[idx[n]]["FIPS"]],
                       [n \in 1..Len(idx) |-> ToNumeric(u.rows[idx[n]]["Value"])])

\* the try block of add_usda_codes fails: the file is absent, a column it
\* reads is, or df has no FIPS to merge on
UsdaFails(t, file) ==
    \/ file = None
    \/ ~({"FIPS", "Attribute", "Value"} \subseteq ColSet(Val(file)))
    \/ "FIPS" \notin ColSet(t)

\* temporal_matching.add_usda_codes(df): any exception leaves df as it was
add_usda_codes(t, file) ==
    IF UsdaFails(t, file) THEN t
    ELSE MergeLeft(t, florida_rucc(Val(file)), "FIPS", "FIPS")

----------------------------------------------------------------------------
(* temporal_matching.py: save_and_summarize *)

\* df.groupby('Year')['Per_Capita_Income'] raises KeyError without the column;
\* the file has been written by then
SummarizeRaises(t) == ~({"Year", "Per_Capita_Income"} \subseteq ColSet(t))

----------------------------------------------------------------------------
(* data_integration.py: process_census_data, process_bea_data,             *)
(* integrate_all_data                                                      *)

\* the key values of a column, missing ones left out, in ascending order
SortedKeys(l, r, k) ==
    SortedSeq({Val(l.rows[i][k]) : i \in {j \in 1..NRows(l) : notna(l.rows[j][k])}}
              \cup {Val(r.rows[i][k]) : i \in {j \in 1..NRows(r) : notna(r.rows[j][k])}})

\* the rows of an outer merge for one key value: every pair of a left and a
\* right row carrying it, a row carried by one side only with the other
\* side's columns missing
OuterRows(l, r, k, key, cs) ==
    LET li == SortedSeq({i \in 1..NRows(l) : l.rows[i][k] = key})
        ri == SortedSeq({j \in 1..NRows(r) : r.rows[j][k] = key})
    IN  IF li = <<>>
        THEN [n \in 1..Len(ri) |->
                [c \in Range(cs) |-> IF c \in ColSet(r) THEN r.rows[ri[n]][c] ELSE NaN]]
        ELSE Concat([m \in 1..Len(li) |->
                IF ri = <<>> THEN << JoinRow(l.rows[li[m]], <<>>, l.cols, cs) >>
                ELSE [n \in 1..Len(ri) |->
                        JoinRow(l.rows[li[m]], <<r.rows[ri[n]]>>, l.cols, cs)]])

\* l.merge(r, on=k, how='outer'): the keys of both sides, sorted, a missing
\* key last
MergeOuter(l, r, k) ==
    LET cs == l.cols \o SeqFilter(r.cols, ColSet(r) \ ColSet(l))
        keys == SortedKeys(l, r, k)
        anyNaN == \/ \E i \in 1..NRows(l) : isna(l.rows[i][k])
                  \/ \E j \in 1..NRows(r) : isna(r.rows[j][k])
    IN  Table(cs, Concat([n \in 1..Len(keys) |-> OuterRows(l, r, k, Some(keys[n]), cs)])
                  \o (IF anyNaN THEN OuterRows(l, r, k, NaN, cs) ELSE <<>>))

\* the tables of a dict, combined by outer merges on FIPS in dict order
RECURSIVE OuterAll(_)
OuterAll(xs) ==
    IF Len(xs) = 1 THEN xs[1]
    ELSE MergeOuter(OuterAll(SubSeq(xs, 1, Len(xs) - 1)), xs[Len(xs)], "FIPS")

\* the tables that were produced, in order; None when there is none
Combined(all) ==
    LET got == SortedSeq({k \in 1..Len(all) : all[k] # None})
    IN  IF got = <<>> THEN None ELSE Some(OuterAll([n \in 1..Len(got) |-> Val(all[got[n]])]))

\* process_census_data(): income, population, education, age
process_census_data(files) ==
    Combined(<< CensusVar(files["median_household_income_2020"], <<"B","1","9","0","1","3">>,
                          "Median_Household_Income"),
                CensusVar(files["total_population_2020"], <<"B","0","1","0","0","3">>, "Total_Population"),
                CensusEducation(files["educational_attainment_2020"]),
                CensusVar(files["sex_by_age_2020"], <<"B","0","1","0","0","2","_","0","0","1">>, "Median_Age") >>)

\* [col for col in t.columns if col.isdigit()]
year_cols(t) == SeqFilter(t.cols, {c \in ColSet(t) : IsNumeral(ColumnText[c])})

\* max(year_cols): the greatest label as text
latest_year(t) ==
    CHOOSE c \in Range(year_cols(t)) :
        \A d \in Range(year_cols(t)) : ~NumeralLess(ColumnText[c], ColumnText[d])

\* one variable of one BEA file at its latest year: None as for BeaLine, and
\* when the file has no year column (max of an empty list raises)
BeaLatest(file, line, name) ==
    LET lines == BeaLine(file, line) IN
    IF lines = None THEN None
    ELSE IF year_cols(Val(file)) = <<>> THEN None
    ELSE LET t == Val(lines)
             label == latest_year(Val(file))
         IN  Some(Table(<<"FIPS", name>>,
                [n \in 1..NRows(t) |->
                    [c \in {"FIPS", name} |->
                        IF c = "FIPS" THEN t.rows[n]["FIPS"]
                        ELSE ToNumeric(t.rows[n][label])]]))

\* process_bea_data(): income, gdp, employment
process_bea_data(files) ==
    Combined(<< BeaLatest(files["CAINC1_FL_1969_2023"], PerCapitaLine, "Per_Capita_Income"),
                BeaLatest(files["CAGDP2_FL_2001_2023"], AllIndustryLine, "GDP_Millions"),
                BeaLatest(files["CAINC4_FL_1969_2023"], TotalEmploymentLine,
                          "Total_Employment") >>)

\* a variant that merges the BEA table only when there is no Census table
integrate_all_data_elif(e, c, b) ==
    IF (c # None \/ b # None) /\ "FIPS" \notin ColSet(e) THEN Raised
    ELSE Returned(IF c # None THEN MergeIfAny(e, c) ELSE MergeIfAny(e, b))

\* integrate_all_data(elections, census, bea): a merge on FIPS raises KeyError
\* when the election table has no FIPS column
integrate_all_data(e, c, b) ==
    IF (c # None \/ b # None) /\ "FIPS" \notin ColSet(e) THEN Raised
    ELSE Returned(MergeIfAny(MergeIfAny(e, c), b))

\* df[df['Year'] == 2024]
Rows2024(t) ==
    LET idx == SortedSeq({i \in 1..NRows(t) : t.rows[i]["Year"] = Some(2024)})
    IN  Table(t.cols, [n \in 1..Len(idx) |-> t.rows[idx[n]]])

----------------------------------------------------------------------------
(* add_usda_codes.py: process_usda_codes, integrate_usda,                  *)
(* analyze_rural_urban_patterns                                            *)

\* usda['State_FIPS'] = ...: the column is added to the caller's table
WithStateFips(u) ==
    Table(u.cols \o <<"State_FIPS">>,
        [n \in 1..NRows(u) |->
            [c \in ColSet(u) \cup {"State_FIPS"} |->
                IF c = "State_FIPS" THEN Some(State_FIPS(u.rows[n]["FIPS"]))
                ELSE u.rows[n][c]]])

\* the Florida rows whose Attribute contains 'RUCC', in file order
RuccAttributeRows(u) ==
    SortedSeq({j \in FloridaRows(u) :
        notna(u.rows[j]["Attribute"]) /\ Contains(Val(u.rows[j]["Attribute"]), <<"R","U","C","C">>)})

\* rucc_attributes[0]: the first such attribute met
rucc_attr(u) == u.rows[RuccAttributeRows(u)[1]]["Attribute"]

\* process_usda_codes has its own rucc_descriptions and categorize
rucc_descriptions_usda ==
    [code \in 1..9 |->
        CASE code = 1 -> "Metro - Large (1M+ pop)"
          [] code = 2 -> "Metro - Medium (250K-1M pop)"
          [] code = 3 -> "Metro - Small (<250K pop)"
          [] code = 4 -> "Nonmetro - Urban (20K+, adjacent to metro)"
          [] code = 5 -> "Nonmetro - Urban (20K+, not adjacent)"
          [] code = 6 -> "Nonmetro - Urban (2.5-20K, adjacent to metro)"
          [] code = 7 -> "Nonmetro - Urban (2.5-20K, not adjacent)"
          [] code = 8 -> "Nonmetro - Rural (<2.5K, adjacent to metro)"
          [] code = 9 -> "Nonmetro - Rural (<2.5K, not adjacent)"]

\* florida_rucc['Rural_Urban_Code'].map(rucc_descriptions)
Rural_Urban_Description_usda(code) ==
    IF isna(code) THEN NaN
    ELSE IF Val(code) \in DOMAIN rucc_descriptions_usda
    THEN Some(rucc_descriptions_usda[Val(code)])
    ELSE NaN

categorize_usda(code) ==
    IF isna(code) THEN None
    ELSE IF Val(code) \in {1, 2, 3} THEN Some("Metropolitan")
    ELSE IF Val(code) \in {4, 5, 6, 7} THEN Some("Micropolitan/Small Urban")
    ELSE Some("Rural")

\* [FIPS, code] rows with the description and the category of process_usda_codes
WithRuccLabels_usda(fipsCells, codes) ==
    Table(RuccCols,
        [n \in 1..Len(codes) |->
            [c \in Range(RuccCols) |->
                IF c = "FIPS" THEN fipsCells[n]
                ELSE IF c = "Rural_Urban_Code" THEN codes[n]
                ELSE IF c = "Rural_Urban_Description" THEN Rural_Urban_Description_usda(codes[n])
                ELSE categorize_usda(codes[n])]])

\* long form: the Florida rows of attribute rucc_attr, Value made numeric
LongRucc(u) ==
    LET idx == SortedSeq({j \in FloridaRows(u) : u.rows[j]["Attribute"] = rucc_attr(u)})
    IN  WithRuccLabels_usda([n \in 1..Len(idx) |-> u.rows[idx[n]]["FIPS"]],
                       [n \in 1..Len(idx) |-> ToNumeric(u.rows[idx[n]]["Value"])])

\* [col for col in columns if 'RUCC' in col.upper()]
rucc_cols(u) ==
    SeqFilter(u.cols, {c \in ColSet(u) : Contains(StrUpper(ColumnText[c]), <<"R","U","C","C">>)})

\* [col for col in columns if 'county' in col.lower() or 'name' in col.lower()]
county_cols(u) ==
    SeqFilter(u.cols, {c \in ColSet(u) :
        \/ Contains(StrLower(ColumnText[c]), <<"c","o","u","n","t","y">>)
        \/ Contains(StrLower(ColumnText[c]), <<"n","a","m","e">>)})

\* wide form: the first RUCC column of the Florida rows, as it is
WideRucc(u) ==
    LET idx == SortedSeq(FloridaRows(u))
    IN  WithRuccLabels_usda([n \in 1..Len(idx) |-> u.rows[idx[n]]["FIPS"]],
                       [n \in 1..Len(idx) |-> u.rows[idx[n]][rucc_cols(u)[1]]])

\* process_usda_codes(usda): the code table, None when no RUCC attribute or
\* column is found; KeyError when a column it selects is not there
process_usda_codes(u) ==
    IF "FIPS" \notin ColSet(u) THEN Raised
    ELSE IF {"Attribute", "Value"} \subseteq ColSet(u)
    THEN IF RuccAttributeRows(u) = <<>> THEN Returned(None)
         ELSE IF "County_Name" \notin ColSet(u) THEN Raised
         ELSE Returned(Some(LongRucc(u)))
    ELSE IF rucc_cols(u) = <<>> THEN Returned(None)
         ELSE IF county_cols(u) = <<>> THEN Raised
         ELSE Returned(Some(WideRucc(u)))

\* the records left without a code by the merge
UsdaUnmatched(t) == {i \in 1..NRows(t) : isna(t.rows[i]["Rural_Urban_Code"])}

\* integrate_usda(master, usda_codes): merge(None) raises TypeError, a master
\* without FIPS KeyError, and so does unmatched['County'] without County
integrate_usda(m, codes) ==
    IF codes = None \/ "FIPS" \notin ColSet(m) THEN Raised
    ELSE LET out == MergeLeft(m, Val(codes), "FIPS", "FIPS")
         IN  IF UsdaUnmatched(out) # {} /\ "County" \notin ColSet(m) THEN Raised
             ELSE Returned(out)

\* analyze_rural_urban_patterns(df) raises KeyError when a column it reads
\* is not there; the top-5 listing reads County and Total_Population only
\* for a category that a 2024 record has
AnalyzeRaises(t) ==
    \/ ~({"Year", "Turnout_Percent"} \subseteq ColSet(t))
    \/ /\ \E i \in 1..NRows(t) :
            t.rows[i]["Year"] = Some(2024) /\ notna(t.rows[i]["Urban_Rural_Category"])
       /\ ~({"County", "Total_Population"} \subseteq ColSet(t))

----------------------------------------------------------------------------
(* Normalization applied to its own output *)

BaseNames ==
    { <<"S","t","."," ","J","o","h","n","s">>, <<"S","a","i","n","t"," ","J","o","h","n","s">>, <<"S","t"," ","J","o","h","n","s">>,
      <<"S","t","."," ","L","u","c","i","e">>, <<"S","a","i","n","t"," ","L","u","c","i","e">>, <<"S","t"," ","L","u","c","i","e">>,
      <<"M","i","a","m","i","-","D","a","d","e">>, <<"D","a","d","e">>, <<"M","i","a","m","i"," ","D","a","d","e">>,
      <<"D","e","S","o","t","o">>, <<"D","e"," ","S","o","t","o">>, <<"D","e","s","o","t","o">>,
      <<"A","l","a","c","h","u","a">>, <<"m","i","a","m","i"," ","d","a","d","e">>, <<"S","a","i","n","t"," ","J","o","h","n","s"," ","C","o","u","n","t","y">>,
      <<"s","a","i","n","t"," ","j","o","h","n","s">>, <<"S","t",".","J","o","h","n","s">>, <<"M","i","a","m","i"," "," ","D","a","d","e">>, <<"D","a","d","e"," ","C","i","t","y">>, <<>> }

Pads == { <<>>, <<" ">>, <<"\t", " ">> }

RawNames == { l \o b \o r : l \in Pads, b \in BaseNames, r \in Pads }

FileNames ==
    {"All_Elections_Combined", "florida_fips_codes", "Elections_Cleaned_with_FIPS",
     "Turnout_Summary_by_Year", "data_dictionary",
     "CAINC1_FL_1969_2023", "CAGDP2_FL_2001_2023", "CAINC4_FL_1969_2023",
     "median_household_income_2020", "total_population_2020",
     "educational_attainment_2020", "sex_by_age_2020",
     "Ruralurbancontinuumcodes2023",
     "Master_Dataset_Integrated", "Analysis_Dataset_2024",
     "Master_Dataset_with_USDA", "Analysis_Dataset_2024_with_USDA",
     "Master_Dataset_Temporal_Matched"}

NoFiles == [f \in FileNames |-> None]

InitNormalize ==
    /\ script = "normalize"
    /\ pc = "raw"
    /\ \E x \in RawNames :
          elections = Some(Table(<<"County">>, << [c \in {"County"} |-> Some(x)] >>))
    /\ prev = <<>>
    /\ trace = ""
    /\ fs = NoFiles
    /\ fips = None /\ issues = <<>> /\ qc_df = None /\ unmatched = None /\ census = None /\ bea = None
    /\ integrated = None /\ master = None /\ usda = None
    /\ usda_codes = None /\ df = None

\* one application of standardize_county_names to the current table
ApplyNormalize(from, to) ==
    /\ script = "normalize" /\ pc = from
    /\ LET r == standardize_county_names(Val(elections))
       IN  IF r.raised
           THEN pc' = "error" /\ trace' = "standardize_county_names"
                /\ UNCHANGED elections
           ELSE pc' = to /\ elections' = Some(r.value) /\ UNCHANGED trace
    /\ prev' = Append(prev, Val(elections))
    /\ UNCHANGED <<script, fs, cleanLocals, integLocals, integrated, usdaLocals, df>>

\* normalize(x)
NormalizeOnce == ApplyNormalize("raw", "once")

\* normalize(normalize(x))
NormalizeAgain == ApplyNormalize("once", "twice")

NextNormalize == NormalizeOnce \/ NormalizeAgain

SpecNormalize == InitNormalize /\ [][NextNormalize]_vars

\* the raw name given, and the County value now held
RawName == Val(prev[1].rows[1]["County"])
CountyNow == Val(Val(elections).rows[1]["County"])

\* out is raw without its leading and trailing whitespace
IsTrimOf(raw, out) ==
    \E a, b \in 0..Len(raw) :
        /\ a + Len(out) + b = Len(raw)
        /\ out = SubSeq(raw, a + 1, Len(raw) - b)
        /\ \A i \in 1..a : raw[i] \in Whitespace
        /\ \A i \in (Len(raw) - b + 1)..Len(raw) : raw[i] \in Whitespace
        /\ out # <<>> => (out[1] \notin Whitespace /\ out[Len(out)] \notin Whitespace)

\* C5: normalization is idempotent: the County value after the second
\* application of standardize_county_names equals the one after the first.
C5_Idempotent ==
    (script = "normalize" /\ pc = "twice")
        => Val(elections).rows[1]["County"] = prev[2].rows[1]["County"]

C5_Witness ==
    /\ script = "normalize" /\ pc = "twice"
    /\ RawName = <<" ">> \o <<"S","a","i","n","t"," ","J","o","h","n","s">> \o <<"\t", " ">>
    /\ CountyNow = <<"S","t","."," ","J","o","h","n","s">>

\* the known variants of each county and the canonical spelling expected
VariantGroups ==
    { [canon |-> <<"S","t","."," ","J","o","h","n","s">>,
       variants |-> {<<"S","a","i","n","t"," ","J","o","h","n","s">>, <<"S","t"," ","J","o","h","n","s">>, <<"S","t","."," ","J","o","h","n","s">>}],
      [canon |-> <<"S","t","."," ","L","u","c","i","e">>,
       variants |-> {<<"S","a","i","n","t"," ","L","u","c","i","e">>, <<"S","t"," ","L","u","c","i","e">>, <<"S","t","."," ","L","u","c","i","e">>}],
      [canon |-> <<"M","i","a","m","i","-","D","a","d","e">>,
       variants |-> {<<"D","a","d","e">>, <<"M","i","a","m","i"," ","D","a","d","e">>, <<"M","i","a","m","i","-","D","a","d","e">>}],
      [canon |-> <<"D","e","s","o","t","o">>,
       variants |-> {<<"D","e","S","o","t","o">>, <<"D","e"," ","S","o","t","o">>}] }

\* C6: every known variant of a county, with or without surrounding
\* whitespace, normalizes to that county's one canonical string.
C6_VariantsAgree ==
    (script = "normalize" /\ pc = "once") =>
        \A g \in VariantGroups : \A v \in g.variants :
            IsTrimOf(RawName, v) => CountyNow = g.canon

C6_Witness ==
    /\ script = "normalize" /\ pc = "once"
    /\ RawName = <<"\t", " ">> \o <<"D","e"," ","S","o","t","o">> \o <<" ">>
    /\ CountyNow = <<"D","e","s","o","t","o">>

\* C7: a name whose trimmed form is no key of the alias table passes through
\* unchanged apart from the trimming, without an error; the match is on the
\* whole trimmed string and is case- and punctuation-sensitive.
C7_UnknownPassThrough ==
    /\ script = "normalize" => pc # "error"
    /\ (script = "normalize" /\ pc = "once") =>
        /\ (\A p \in name_fixes : ~IsTrimOf(RawName, p[1])) => IsTrimOf(RawName, CountyNow)
        /\ \A x \in {<<"m","i","a","m","i"," ","d","a","d","e">>, <<"S","a","i","n","t"," ","J","o","h","n","s"," ","C","o","u","n","t","y">>} :
              IsTrimOf(RawName, x) => CountyNow = x

C7_Witness ==
    /\ script = "normalize" /\ pc = "once"
    /\ RawName = <<" ">> \o <<"S","a","i","n","t"," ","J","o","h","n","s"," ","C","o","u","n","t","y">>
    /\ CountyNow = <<"S","a","i","n","t"," ","J","o","h","n","s"," ","C","o","u","n","t","y">>

----------------------------------------------------------------------------
(* clean_standardize.py: main() *)

MaxElectionRows == 2

SeqsUpTo(S, n) == UNION {[1..k -> S] : k \in 0..n}

ElectionColumns ==
    <<"County", "Year", "Election_Date", "Registered_Voters", "Votes_Cast", "Turnout_Percent">>

ERow(county, year, rv, vc, tp) ==
    [County |-> county, Year |-> year, Election_Date |-> Some("11/03"),
     Registered_Voters |-> rv, Votes_Cast |-> vc, Turnout_Percent |-> tp]

\* rows an election file may hold: a clean row, a second row of the same key
\* with a turnout that does not recompute, an alias with padding and a low
\* turnout, an alias with a high turnout, a county the reference table does
\* not have with no registered voters, and rows with missing values
ElectionRows ==
    { ERow(Some(<<"A","l","a","c","h","u","a">>), Some(2020), Some(1000), Some(700), Some(700)),
      ERow(Some(<<"A","l","a","c","h","u","a">>), Some(2020), Some(1000), Some(700), Some(750)),
      ERow(Some(<<" ","S","a","i","n","t"," ","J","o","h","n","s">>), Some(2020), Some(2000), Some(500), Some(250)),
      ERow(Some(<<"D","a","d","e">>), Some(2024), Some(1000), Some(960), Some(960)),
      ERow(Some(<<"A","t","l","a","n","t","i","s">>), Some(2024), Some(0), Some(0), NaN),
      ERow(Some(<<"a","l","a","c","h","u","a">>), NaN, NaN, Some(700), Some(700)),
      ERow(NaN, Some(2024), Some(0), Some(5), Some(300)) }

\* df.drop(columns=c)
DropColumn(t, c) == Select(t, SeqFilter(t.cols, ColSet(t) \ {c}))

\* a 2020 row of the k-th of the counties of a full year
FullRow(k, vc, tp) == ERow(Some(<<"C","o","u","n","t","y"," ">> \o Decimal(k)), Some(2020), Some(1000), Some(vc), Some(tp))

\* first rows of a full year: a consistent one, one with a turnout above 95
\* and one whose turnout does not recompute
FirstRows == {FullRow(1, 700, 700), FullRow(1, 960, 960), FullRow(1, 700, 750)}

\* a year of n distinct counties, all rows after the first consistent
FullYear(first, n) == Table(ElectionColumns, <<first>> \o [k \in 1..(n - 1) |-> FullRow(k + 1, 700, 700)])

\* files of one complete year, and of one year short of one county
FullYearFiles ==
    {FullYear(r, n) : r \in FirstRows, n \in {ExpectedCounties - 1, ExpectedCounties}}

\* the election files: every table of up to MaxElectionRows rows, the
\* full-year tables, and the tables of at most one row with one column absent
\* from the file
ElectionFiles ==
    {Table(ElectionColumns, rs) : rs \in SeqsUpTo(ElectionRows, MaxElectionRows)}
    \cup FullYearFiles
    \cup {DropColumn(Table(ElectionColumns, rs), c) :
            rs \in SeqsUpTo(ElectionRows, 1), c \in {"County", "Votes_Cast", "Election_Date"}}

RefRow(f, name) == [FIPS |-> Some(f), County_Name |-> Some(name)]

\* rows a reference file may hold; the last two repeat a name and vary its case
RefRows ==
    << RefRow(12001, <<"A","l","a","c","h","u","a">>), RefRow(12109, <<"S","t","."," ","J","o","h","n","s">>),
       RefRow(12086, <<"M","i","a","m","i","-","D","a","d","e">>), RefRow(12999, <<"A","l","a","c","h","u","a">>),
       RefRow(12555, <<"a","l","a","c","h","u","a">>) >>

RefIndexSets == SUBSET (1..Len(RefRows))

\* the reference files: any selection of RefRows, in order, and one file
\* without its FIPS column
ReferenceFiles ==
    {Table(<<"FIPS", "County_Name">>, [n \in 1..Cardinality(S) |-> RefRows[SortedSeq(S)[n]]]) :
        S \in RefIndexSets}
    \cup {Table(<<"County_Name">>, << [County_Name |-> Some(<<"A","l","a","c","h","u","a">>)] >>)}

InitClean ==
    /\ script = "clean_standardize"
    /\ pc = "load_data"
    /\ trace = ""
    /\ \E e \in {None} \cup {Some(t) : t \in ElectionFiles},
          f \in {None} \cup {Some(t) : t \in ReferenceFiles} :
            fs = [NoFiles EXCEPT !["All_Elections_Combined"] = e,
                                 !["florida_fips_codes"] = f]
    /\ elections = None /\ fips = None /\ issues = <<>> /\ qc_df = None /\ unmatched = None
    /\ prev = <<>>
    /\ census = None /\ bea = None /\ integrated = None
    /\ master = None /\ usda = None /\ usda_codes = None /\ df = None

cleanFrame == <<script, integLocals, integrated, usdaLocals, df>>

\* elections, fips = load_data(); if elections is None: return
Clean_load_data ==
    /\ script = "clean_standardize" /\ pc = "load_data"
    /\ elections' = load_data(fs)[1]
    /\ fips' = load_data(fs)[2]
    /\ pc' = IF load_data(fs)[1] = None THEN "return" ELSE "standardize_county_names"
    /\ UNCHANGED <<trace, fs, issues, qc_df, unmatched, prev, cleanFrame>>

\* elections = standardize_county_names(elections)
Clean_standardize_county_names ==
    /\ script = "clean_standardize" /\ pc = "standardize_county_names"
    /\ LET r == standardize_county_names(Val(elections))
       IN  IF r.raised
           THEN pc' = "except" /\ trace' = "standardize_county_names" /\ UNCHANGED elections
           ELSE pc' = "add_fips_codes" /\ elections' = Some(r.value) /\ UNCHANGED trace
    /\ prev' = Append(prev, Val(elections))
    /\ UNCHANGED <<fs, fips, issues, qc_df, unmatched, cleanFrame>>

\* elections = add_fips_codes(elections, fips)
Clean_add_fips_codes ==
    /\ script = "clean_standardize" /\ pc = "add_fips_codes"
    /\ LET r == add_fips_codes(Val(elections), fips)
       IN  IF r.raised
           THEN pc' = "except" /\ trace' = "add_fips_codes" /\ UNCHANGED elections
           ELSE pc' = "quality_checks" /\ elections' = Some(r.value) /\ UNCHANGED trace
    /\ unmatched' = Notice(Val(elections), fips)
    /\ prev' = Append(prev, Val(elections))
    /\ UNCHANGED <<fs, fips, issues, qc_df, cleanFrame>>

\* elections, issues = quality_checks(elections): main's elections is bound
\* to the table returned; the object it passed in is left as the call made it
Clean_quality_checks ==
    /\ script = "clean_standardize" /\ pc = "quality_checks"
    /\ LET r == quality_checks(Val(elections))
       IN  IF r.raised
           THEN /\ pc' = "except" /\ trace' = "quality_checks"
                /\ qc_df' = Some(r.arg)
                /\ UNCHANGED <<elections, issues>>
           ELSE /\ pc' = "create_summary_statistics"
                /\ elections' = Some(r.value) /\ issues' = r.issues
                /\ qc_df' = Some(r.arg)
                /\ UNCHANGED trace
    /\ prev' = Append(prev, Val(elections))
    /\ UNCHANGED <<fs, fips, unmatched, cleanFrame>>

\* a variant of the summary stage that gives up when issues were found
Clean_create_summary_statistics_strict ==
    /\ script = "clean_standardize" /\ pc = "create_summary_statistics"
    /\ IF SummaryColumns \subseteq ColSet(Val(elections)) /\ issues = <<>>
       THEN pc' = "create_data_dictionary" /\ UNCHANGED trace
       ELSE pc' = "except" /\ trace' = "create_summary_statistics"
    /\ UNCHANGED <<fs, elections, fips, issues, qc_df, unmatched, prev, cleanFrame>>

\* summary_stats = create_summary_statistics(elections)
Clean_create_summary_statistics ==
    /\ script = "clean_standardize" /\ pc = "create_summary_statistics"
    /\ IF SummaryColumns \subseteq ColSet(Val(elections))
       THEN pc' = "create_data_dictionary" /\ UNCHANGED trace
       ELSE pc' = "except" /\ trace' = "create_summary_statistics"
    /\ UNCHANGED <<fs, elections, fips, issues, qc_df, unmatched, prev, cleanFrame>>

\* data_dict = create_data_dictionary(elections)
Clean_create_data_dictionary ==
    /\ script = "clean_standardize" /\ pc = "create_data_dictionary"
    /\ fs' = [fs EXCEPT !["data_dictionary"] = Some(DataDictionary)]
    /\ pc' = "save_cleaned_data"
    /\ UNCHANGED <<trace, elections, fips, issues, qc_df, unmatched, prev, cleanFrame>>

\* output_file = save_cleaned_data(elections): the cleaned table is written
\* first, then the summary by year
Clean_save_cleaned_data ==
    /\ script = "clean_standardize" /\ pc = "save_cleaned_data"
    /\ IF SummaryColumns \subseteq ColSet(Val(elections))
       THEN /\ fs' = [fs EXCEPT !["Elections_Cleaned_with_FIPS"] = elections,
                                !["Turnout_Summary_by_Year"] = Some(TurnoutSummary)]
            /\ pc' = "done" /\ UNCHANGED trace
       ELSE /\ fs' = [fs EXCEPT !["Elections_Cleaned_with_FIPS"] = elections]
            /\ pc' = "except" /\ trace' = "save_cleaned_data"
    /\ UNCHANGED <<elections, fips, issues, qc_df, unmatched, prev, cleanFrame>>

NextClean ==
    \/ Clean_load_data
    \/ Clean_standardize_county_names
    \/ Clean_add_fips_codes
    \/ Clean_quality_checks
    \/ Clean_create_summary_statistics
    \/ Clean_create_data_dictionary
    \/ Clean_save_cleaned_data

SpecClean == InitClean /\ [][NextClean]_vars

\* the places where main() has ended: after its last statement, in its
\* except branch, and at the return that follows load_data
Ended == {"done", "except", "return"}

\* the interpreter goes on to another statement of main()
Proceed ==
    /\ pc \notin Ended
    /\ pc' \in {"standardize_county_names", "add_fips_codes", "quality_checks",
               "create_summary_statistics", "create_data_dictionary",
               "save_cleaned_data"} \cup Ended

\* main() is sequential code and every stage returns or raises: a run that
\* has not ended does not stay in a stage for ever
SpecCleanLive == InitClean /\ [][NextClean]_vars /\ WF_pc(Proceed)

\* the table add_fips_codes was called with, once it has returned
FipsArg == prev[2]

UniqueNames(t) ==
    \A j, k \in 1..NRows(t) :
        t.rows[j]["County_Name"] = t.rows[k]["County_Name"] => j = k

\* C8: with unique reference names, add_fips_codes returns one row per input
\* record, in order and with the record's own fields, and each FIPS is the
\* FIPS of the reference row of exactly that County name, or missing when
\* there is no such row.
C8_LeftJoinNoFabricatedKeys ==
    (script = "clean_standardize" /\ pc = "quality_checks" /\ fips # None
        /\ UniqueNames(Val(fips))) =>
        LET out == Val(elections)
            ref == Val(fips)
        IN  /\ NRows(out) = NRows(FipsArg)
            /\ \A i \in 1..NRows(out) :
                /\ \A c \in ColSet(FipsArg) : out.rows[i][c] = FipsArg.rows[i][c]
                /\ LET m == {j \in 1..NRows(ref) :
                                ref.rows[j]["County_Name"] = out.rows[i]["County"]}
                   IN  IF m = {} THEN isna(out.rows[i]["FIPS"])
                       ELSE \A j \in m : out.rows[i]["FIPS"] = ref.rows[j]["FIPS"]

C8_Witness ==
    /\ script = "clean_standardize" /\ pc = "quality_checks" /\ fips # None
    /\ UniqueNames(Val(fips))
    /\ NRows(Val(fips)) = 3
    /\ NRows(Val(elections)) = 2
    /\ Val(elections).rows[1]["County"] = Some(<<"A","t","l","a","n","t","i","s">>)
    /\ isna(Val(elections).rows[1]["FIPS"])
    /\ Val(elections).rows[2]["County_Original"] = Some(<<" ","S","a","i","n","t"," ","J","o","h","n","s">>)
    /\ Val(elections).rows[2]["FIPS"] = Some(12109)

\* quality_checks has been called: prev holds the tables that
\* standardize_county_names, add_fips_codes and quality_checks received
QcCalled == script = "clean_standardize" /\ Len(prev) = 3
QcArg == prev[3]

\* C10: quality_checks never raises, whatever table it is given, a table
\* lacking a field the checks read included.
C10_NeverRaises == QcCalled => trace # "quality_checks"

\* what the code does instead: it raises exactly when the table lacks a
\* column the checks read; for every table that has them (zero rows, missing
\* values, Registered_Voters = 0 included) it returns the rows it was given
QcRaisesOnMissingColumnOnly ==
    QcCalled =>
        /\ trace = "quality_checks" <=> ~(QcColumns \subseteq ColSet(QcArg))
        /\ trace # "quality_checks" =>
            /\ pc \in {"create_summary_statistics", "create_data_dictionary",
                       "save_cleaned_data", "done"}
            /\ elections # None
            /\ Val(elections).rows = QcArg.rows

----------------------------------------------------------------------------
(* clean_standardize.py: quality_checks(), as main() calls it *)

\* quality_checks has returned its (df, issues) pair to main
QcReturned == QcCalled /\ trace # "quality_checks"

\* the entries of the returned issue list of one kind
IssuesOf(category) == SeqFilter(issues, {x \in Range(issues) : x.category = category})

\* the kinds of entry quality_checks appends to issues
IssueCategories == {"Missing values", "County count", "Low turnout", "Duplicate records"}

\* C11: every row whose Turnout_Percent differs from round(Votes_Cast /
\* Registered_Voters * 100, 1) by more than 0.5 contributes a finding to the
\* returned issue list, and no other row does.
C11_MismatchInIssues ==
    QcReturned =>
        /\ IssuesOf("Turnout mismatch") # <<>> <=> mismatches(QcArg) # <<>>
        /\ Len(issues) >=
            Len(MissingIssues(QcArg)) + Len(CardinalityIssues(QcArg))
            + Len(LowTurnoutIssues(QcArg)) + Len(DuplicateIssues(QcArg))
            + Len(mismatches(QcArg))

\* what the code does with the mismatching rows: it selects exactly the rows
\* beyond the tolerance, prints them, and returns an issue list without them
MismatchesPrintedOnly ==
    QcReturned =>
        /\ \A i \in 1..NRows(QcArg) :
            i \in Range(mismatches(QcArg)) <=>
                /\ notna(Turnout_Difference(QcArg.rows[i]))
                /\ Val(Turnout_Difference(QcArg.rows[i])) > Tolerance
        /\ \A n \in 1..Len(issues) : issues[n].category \in IssueCategories

MismatchReached ==
    /\ QcReturned
    /\ NRows(QcArg) = 1
    /\ QcArg.rows[1]["Registered_Voters"] = Some(1000)
    /\ QcArg.rows[1]["Votes_Cast"] = Some(700)
    /\ QcArg.rows[1]["Turnout_Percent"] = Some(750)
    /\ mismatches(QcArg) = <<1>>
    /\ IssuesOf("Turnout mismatch") = <<>>

\* the entries of the issue list that name the county, the year and the
\* turnout of row i of the table quality_checks was given
RowFindings(i) ==
    {n \in 1..Len(issues) :
        /\ issues[n].key = <<QcArg.rows[i]["County"], QcArg.rows[i]["Year"]>>
        /\ notna(QcArg.rows[i]["Turnout_Percent"])
        /\ issues[n].value = Val(QcArg.rows[i]["Turnout_Percent"])}

\* C12: every row whose Turnout_Percent is above 95 has an entry of its own
\* in the returned issue list, naming its county, year and value.
C12_HighTurnoutInIssues ==
    QcReturned =>
        \A i \in 1..NRows(QcArg) :
            (notna(QcArg.rows[i]["Turnout_Percent"])
                /\ Val(QcArg.rows[i]["Turnout_Percent"]) > HighTurnout)
            => RowFindings(i) # {}

\* what the code does with the rows above 95: it selects them, prints them,
\* and returns an issue list in which no entry carries a value above 95
HighTurnoutPrintedOnly ==
    QcReturned =>
        \A n \in 1..Len(issues) :
            issues[n].category = "Low turnout" => issues[n].value < LowTurnout

HighTurnoutReached ==
    /\ QcReturned
    /\ NRows(QcArg) = 1
    /\ QcArg.rows[1]["County"] = Some(<<"M","i","a","m","i","-","D","a","d","e">>)
    /\ QcArg.rows[1]["Turnout_Percent"] = Some(960)
    /\ high_turnout(QcArg) = <<1>>
    /\ RowFindings(1) = {}

\* the rows whose turnout is present and below 30
LowRows == {i \in 1..NRows(QcArg) :
    notna(QcArg.rows[i]["Turnout_Percent"]) /\ Val(QcArg.rows[i]["Turnout_Percent"]) < LowTurnout}

\* C13: the returned issue list holds exactly one low-turnout entry per row
\* whose Turnout_Percent is below 30, naming that row's county, year and
\* value; rows at 30 or above and rows without a turnout have none.
C13_OneIssuePerLowRow ==
    QcReturned =>
        /\ Len(IssuesOf("Low turnout")) = Cardinality(LowRows)
        /\ \A i \in 1..NRows(QcArg) :
            LET mine == {n \in RowFindings(i) : issues[n].category = "Low turnout"}
                same == {j \in LowRows :
                            /\ QcArg.rows[j]["County"] = QcArg.rows[i]["County"]
                            /\ QcArg.rows[j]["Year"] = QcArg.rows[i]["Year"]
                            /\ QcArg.rows[j]["Turnout_Percent"] = QcArg.rows[i]["Turnout_Percent"]}
            IN  IF i \in LowRows THEN Cardinality(mine) = Cardinality(same)
                ELSE mine = {}

\* a row at 25.0 next to a row at exactly 30.0: one entry, for the first
C13_Witness ==
    /\ QcReturned
    /\ NRows(QcArg) = 2
    /\ QcArg.rows[1]["County"] = Some(<<"S","t","."," ","J","o","h","n","s">>)
    /\ QcArg.rows[1]["Turnout_Percent"] = Some(250)
    /\ QcArg.rows[2]["Turnout_Percent"] = Some(LowTurnout)
    /\ Len(IssuesOf("Low turnout")) = 1
    /\ IssuesOf("Low turnout")[1].key = <<Some(<<"S","t","."," ","J","o","h","n","s">>), Some(2020)>>
    /\ IssuesOf("Low turnout")[1].value = 250

\* the five conditions under which no check has anything to report
NoNulls == \A i \in 1..NRows(QcArg) : \A c \in ColSet(QcArg) : notna(QcArg.rows[i][c])
DistinctCounties(y) ==
    {QcArg.rows[i]["County"] : i \in {j \in 1..NRows(QcArg) :
        QcArg.rows[j]["Year"] = Some(y) /\ notna(QcArg.rows[j]["County"])}}
YearsPresent == {Val(QcArg.rows[i]["Year"]) : i \in {j \in 1..NRows(QcArg) : notna(QcArg.rows[j]["Year"])}}
EveryYearComplete == \A y \in YearsPresent : Cardinality(DistinctCounties(y)) = ExpectedCounties
TurnoutInRange ==
    \A i \in 1..NRows(QcArg) :
        notna(QcArg.rows[i]["Turnout_Percent"]) =>
            /\ Val(QcArg.rows[i]["Turnout_Percent"]) >= LowTurnout
            /\ Val(QcArg.rows[i]["Turnout_Percent"]) <= HighTurnout
TurnoutRecomputes ==
    \A i \in 1..NRows(QcArg) :
        notna(Turnout_Difference(QcArg.rows[i])) =>
            Val(Turnout_Difference(QcArg.rows[i])) <= Tolerance
SharedKeyRows ==
    {i \in 1..NRows(QcArg) : \E j \in 1..NRows(QcArg) :
        /\ j # i
        /\ QcArg.rows[j]["County"] = QcArg.rows[i]["County"]
        /\ QcArg.rows[j]["Year"] = QcArg.rows[i]["Year"]}

\* C14: the returned issue list is empty exactly when the table has no null,
\* every year present has 67 distinct counties, every turnout lies in
\* [30, 95], every turnout recomputes within 0.5 and no (county, year)
\* repeats.
C14_EmptyIffNoAnomaly ==
    QcReturned =>
        (issues = <<>> <=>
            /\ NoNulls
            /\ EveryYearComplete
            /\ TurnoutInRange
            /\ TurnoutRecomputes
            /\ SharedKeyRows = {})

\* what the code does: the list is empty exactly when the four checks that
\* append to it are clean; a turnout above 95 or one that does not recompute
\* leaves it empty
EmptyIffAppendingChecksClean ==
    QcReturned =>
        (issues = <<>> <=>
            /\ NoNulls
            /\ EveryYearComplete
            /\ LowRows = {}
            /\ SharedKeyRows = {})

\* a complete year whose first row has a turnout of 96.0: no issue
EmptyListWithHighTurnout ==
    /\ QcReturned
    /\ NRows(QcArg) = ExpectedCounties
    /\ NoNulls /\ EveryYearComplete /\ SharedKeyRows = {}
    /\ QcArg.rows[1]["Turnout_Percent"] = Some(960)
    /\ issues = <<>>

\* a complete year whose first row reports 75.0 for 700 of 1000: no issue
EmptyListWithMismatch ==
    /\ QcReturned
    /\ NRows(QcArg) = ExpectedCounties
    /\ NoNulls /\ EveryYearComplete /\ SharedKeyRows = {}
    /\ ~TurnoutRecomputes
    /\ issues = <<>>

\* C15: for each year present the issue list has exactly one cardinality
\* entry, naming the year and its number of distinct counties, when that
\* number is not 67, and none when it is 67; a county on several rows of a
\* year counts once, and no cardinality entry names a year that is absent.
C15_OneCardinalityIssuePerYear ==
    QcReturned =>
        /\ \A y \in YearsPresent :
            LET mine == {n \in 1..Len(issues) :
                            issues[n].category = "County count" /\ issues[n].key = <<y>>}
            IN  IF Cardinality(DistinctCounties(y)) = ExpectedCounties THEN mine = {}
                ELSE /\ Cardinality(mine) = 1
                     /\ \A n \in mine : issues[n].value = Cardinality(DistinctCounties(y))
        /\ \A n \in 1..Len(issues) :
            issues[n].category = "County count" => \E y \in YearsPresent : issues[n].key = <<y>>

\* 66 distinct counties for 2020: one entry naming 2020 and 66
C15_Witness ==
    /\ QcReturned
    /\ NRows(QcArg) = ExpectedCounties - 1
    /\ YearsPresent = {2020}
    /\ IssuesOf("County count") =
        << [category |-> "County count", key |-> <<2020>>, value |-> ExpectedCounties - 1] >>

\* a complete year has no cardinality entry
CompleteYearNoIssue ==
    /\ QcReturned
    /\ YearsPresent = {2020}
    /\ Cardinality(DistinctCounties(2020)) = ExpectedCounties
    /\ IssuesOf("County count") = <<>>

\* two rows of one county in one year count once
RepeatedCountyCountsOnce ==
    /\ QcReturned
    /\ NRows(QcArg) = 2
    /\ QcArg.rows[1]["County"] = QcArg.rows[2]["County"]
    /\ YearsPresent = {2020}
    /\ IssuesOf("County count")[1].value = 1

\* the (county, year) pairs that occur on more than one row
OffendingKeys == {<<QcArg.rows[i]["County"], QcArg.rows[i]["Year"]>> : i \in SharedKeyRows}

\* C16: when some (county, year) occurs on more than one row the issue list
\* has one duplicate entry, whose count is the number of rows that share
\* their key with another row and which lists the offending keys; when every
\* pair is unique it has none.
C16_DuplicateIssueListsKeys ==
    QcReturned =>
        IF SharedKeyRows = {} THEN IssuesOf("Duplicate records") = <<>>
        ELSE /\ Len(IssuesOf("Duplicate records")) = 1
             /\ IssuesOf("Duplicate records")[1].value = Cardinality(SharedKeyRows)
             /\ Range(IssuesOf("Duplicate records")[1].key) = OffendingKeys

\* what the code does: the entry carries the count alone; the keys are printed
DuplicateIssueCountOnly ==
    QcReturned =>
        IF SharedKeyRows = {} THEN IssuesOf("Duplicate records") = <<>>
        ELSE IssuesOf("Duplicate records") =
                << [category |-> "Duplicate records", key |-> <<>>,
                    value |-> Cardinality(SharedKeyRows)] >>

\* two rows sharing (Alachua, 2020): count 2 and no key in the entry
DuplicateKeysNotListed ==
    /\ QcReturned
    /\ NRows(QcArg) = 2
    /\ OffendingKeys = {<<Some(<<"A","l","a","c","h","u","a">>), Some(2020)>>}
    /\ IssuesOf("Duplicate records")[1].value = 2
    /\ IssuesOf("Duplicate records")[1].key = <<>>

\* the rows of the table quality_checks was given that lack a value in column c
NullRows(c) == {i \in 1..NRows(QcArg) : isna(QcArg.rows[i][c])}

\* C17: the issue list has exactly one missing-value entry for each column
\* with at least one null, carrying the number of its nulls, none for a
\* column without nulls, and none naming anything but a column of the table.
C17_OneMissingIssuePerColumn ==
    QcReturned =>
        /\ \A c \in ColSet(QcArg) :
            LET mine == {n \in 1..Len(issues) :
                            issues[n].category = "Missing values" /\ issues[n].key = <<c>>}
            IN  IF NullRows(c) = {} THEN mine = {}
                ELSE /\ Cardinality(mine) = 1
                     /\ \A n \in mine : issues[n].value = Cardinality(NullRows(c))
        /\ \A n \in 1..Len(issues) :
            issues[n].category = "Missing values" => \E c \in ColSet(QcArg) : issues[n].key = <<c>>

\* two rows no reference name matches, one of them without a turnout: FIPS
\* has two nulls, Turnout_Percent one, Votes_Cast none
C17_Witness ==
    /\ QcReturned
    /\ NRows(QcArg) = 2
    /\ "FIPS" \in ColSet(QcArg)
    /\ Cardinality(NullRows("FIPS")) = 2
    /\ Cardinality(NullRows("Turnout_Percent")) = 1
    /\ NullRows("Votes_Cast") = {}
    /\ \E n \in 1..Len(issues) :
        issues[n] = [category |-> "Missing values", key |-> <<"FIPS">>, value |-> 2]
    /\ \E n \in 1..Len(issues) :
        issues[n] = [category |-> "Missing values", key |-> <<"Turnout_Percent">>, value |-> 1]

\* C18: the table quality_checks returns has the rows of the table it was
\* given, in the same order and with the same values, and the same columns;
\* Calculated_Turnout and Turnout_Difference are not among them.
C18_ReturnsInputTable ==
    QcReturned =>
        /\ elections # None
        /\ Val(elections).cols = QcArg.cols
        /\ NRows(Val(elections)) = NRows(QcArg)
        /\ \A i \in 1..NRows(QcArg) :
            \A c \in ColSet(QcArg) : Val(elections).rows[i][c] = QcArg.rows[i][c]
        /\ ColSet(Val(elections)) \cap {"Calculated_Turnout", "Turnout_Difference"} = {}

\* two rows with findings of every kind, returned as they came
C18_Witness ==
    /\ QcReturned
    /\ NRows(QcArg) = 2
    /\ mismatches(QcArg) # <<>>
    /\ SharedKeyRows # {}
    /\ Len(issues) >= 2
    /\ Val(elections) = QcArg
    /\ "FIPS" \in ColSet(Val(elections))

----------------------------------------------------------------------------
(* clean_standardize.py: main() with an input file missing *)

ElectionsMissing == script = "clean_standardize" /\ fs["All_Elections_Combined"] = None
FipsMissing == script = "clean_standardize" /\ fs["florida_fips_codes"] = None

\* the stages after add_fips_codes: quality_checks has been called, or a
\* later stage is about to run or has run
LaterStageRan ==
    \/ Len(prev) = 3
    \/ pc \in {"create_summary_statistics", "create_data_dictionary", "save_cleaned_data", "done"}

\* C20: when the election file or the FIPS reference file is missing, neither
\* the validation nor the summary nor the save runs, and no cleaned table is
\* written.
C20_MissingInputStopsRun ==
    (ElectionsMissing \/ FipsMissing) =>
        /\ ~LaterStageRan
        /\ fs["Elections_Cleaned_with_FIPS"] = None

\* what the code does: only a missing election file stops the run, before
\* any stage and with nothing written
MissingElectionsStopsRun ==
    ElectionsMissing =>
        /\ pc \in {"load_data", "return"}
        /\ prev = <<>> /\ trace = ""
        /\ fs["Elections_Cleaned_with_FIPS"] = None
        /\ fs["Turnout_Summary_by_Year"] = None
        /\ fs["data_dictionary"] = None

\* without the FIPS file the run goes through every stage and saves a
\* cleaned table that has no FIPS column
FipsMissingRunCompletes ==
    /\ FipsMissing /\ ~ElectionsMissing
    /\ pc = "done" /\ trace = ""
    /\ Len(prev) = 3
    /\ fs["Elections_Cleaned_with_FIPS"] # None
    /\ NRows(Val(fs["Elections_Cleaned_with_FIPS"])) = 2
    /\ "FIPS" \notin ColSet(Val(fs["Elections_Cleaned_with_FIPS"]))

----------------------------------------------------------------------------
(* clean_standardize.py: main() after quality_checks *)

\* the stages of main() in the order of its statements
StageOrder ==
    << "load_data", "standardize_county_names", "add_fips_codes", "quality_checks",
       "create_summary_statistics", "create_data_dictionary", "save_cleaned_data", "done" >>

\* a step of main() enters the next stage, the except branch, or returns
NextStage ==
    \/ pc' \in {"except", "return"}
    \/ \E k \in 1..(Len(StageOrder) - 1) : pc = StageOrder[k] /\ pc' = StageOrder[k + 1]

\* the run has ended with the table quality_checks returned saved in full
SavedInFull ==
    /\ pc = "done" /\ trace = ""
    /\ fs["Elections_Cleaned_with_FIPS"] = elections
    /\ Val(elections).rows = QcArg.rows
    /\ fs["data_dictionary"] # None
    /\ fs["Turnout_Summary_by_Year"] # None

\* C23: once quality_checks has returned, whatever its issue list holds, the
\* summary, the data dictionary and the save run and the whole cleaned table
\* is saved; and the stages of main() run in the order of normalization, key
\* resolution, validation, summary, dictionary, save.
C23_IssuesNeverStopRun ==
    /\ (script = "clean_standardize" /\ pc = "create_summary_statistics") ~> SavedInFull
    /\ [][pc' # pc => NextStage]_vars

\* a run that ended with its table saved and four kinds of issue in its list
C23_Witness ==
    /\ script = "clean_standardize"
    /\ SavedInFull
    /\ NRows(Val(elections)) = 2
    /\ IssuesOf("Missing values") # <<>>
    /\ IssuesOf("County count") # <<>>
    /\ IssuesOf("Low turnout") # <<>>
    /\ IssuesOf("Duplicate records") # <<>>

----------------------------------------------------------------------------
(* temporal_matching.py: main() *)

\* a row of Elections_Cleaned_with_FIPS.csv
CRow(f, county, year) ==
    [FIPS |-> f, County |-> Some(county), County_Original |-> Some(county),
     Year |-> year, Election_Date |-> Some("11/03"), Registered_Voters |-> Some(1000),
     Votes_Cast |-> Some(700), Turnout_Percent |-> Some(700)]

CleanedColumns ==
    <<"FIPS", "County", "County_Original", "Year", "Election_Date",
      "Registered_Voters", "Votes_Cast", "Turnout_Percent">>

\* rows the cleaned election file may hold: two years of one county, a
\* second county, a record without FIPS, a year the mapping does not have
CleanedRows ==
    { CRow(Some(12001), <<"A","l","a","c","h","u","a">>, Some(2022)),
      CRow(Some(12001), <<"A","l","a","c","h","u","a">>, Some(2024)),
      CRow(Some(12003), <<"B","a","k","e","r">>, Some(2024)),
      CRow(NaN, <<"A","t","l","a","n","t","i","s">>, Some(2024)),
      CRow(Some(12001), <<"A","l","a","c","h","u","a">>, Some(2019)) }

\* the cleaned files: every table of up to MaxElectionRows rows, and one
\* written by a run that had no reference table (no FIPS column)
CleanedFiles ==
    {Table(CleanedColumns, rs) : rs \in SeqsUpTo(CleanedRows, MaxElectionRows)}
    \cup {DropColumn(Table(CleanedColumns, <<CRow(NaN, <<"A","l","a","c","h","u","a">>, Some(2022))>>), "FIPS")}

YearLabels == <<"2016", "2018", "2020", "2022", "2023">>

\* a row of a BEA file: its values are v, v+1, ... under the five labels
BeaRow(geo, desc, v, last) ==
    [c \in {"GeoFIPS", "Description"} \cup Range(YearLabels) |->
        IF c = "GeoFIPS" THEN geo
        ELSE IF c = "Description" THEN Some(desc)
        ELSE IF c = "2023" THEN last
        ELSE Some(Decimal(v + (CHOOSE k \in 1..5 : YearLabels[k] = c) - 1))]

BeaFile(rows, labels) ==
    Select(Table(<<"GeoFIPS", "Description">> \o YearLabels, rows),
           <<"GeoFIPS", "Description">> \o labels)

\* CAINC1 rows: county lines with quotes and padding, another line of the
\* same county, a suppressed value, the state row, another state, a footnote
IncomeRows ==
    << BeaRow(Some(<<" ","\"","1","2","0","0","1","\"">>), <<"P","e","r"," ","c","a","p","i","t","a"," ","p","e","r","s","o","n","a","l"," ","i","n","c","o","m","e"," ","(","d","o","l","l","a","r","s",")"," ","2","/">>, 40, Some(<<"4","4">>)),
       BeaRow(Some(<<" ","\"","1","2","0","0","1","\"">>), <<"P","o","p","u","l","a","t","i","o","n"," ","(","p","e","r","s","o","n","s",")"," ","1","/">>, 90, Some(<<"9","4">>)),
       BeaRow(Some(<<"\"","1","2","0","0","3","\""," ">>), <<" ","p","e","r"," ","c","a","p","i","t","a"," ","p","e","r","s","o","n","a","l"," ","i","n","c","o","m","e">>, 50, Some(<<"(","D",")">>)),
       BeaRow(Some(<<" ","\"","1","2","0","0","0","\"">>), <<"P","e","r"," ","c","a","p","i","t","a"," ","p","e","r","s","o","n","a","l"," ","i","n","c","o","m","e"," ","(","d","o","l","l","a","r","s",")"," ","2","/">>, 60, Some(<<"6","4">>)),
       BeaRow(Some(<<" ","\"","1","3","0","0","1","\"">>), <<"P","e","r"," ","c","a","p","i","t","a"," ","p","e","r","s","o","n","a","l"," ","i","n","c","o","m","e"," ","(","d","o","l","l","a","r","s",")"," ","2","/">>, 65, Some(<<"6","9">>)),
       BeaRow(NaN, <<"N","o","t","e",":"," ","s","e","e"," ","t","h","e"," ","f","o","o","t","n","o","t","e","s">>, 10, NaN) >>

IncomeRowsRepeated ==
    << IncomeRows[1], IncomeRows[3],
       BeaRow(Some(<<"1","2","0","0","1">>), <<"P","e","r"," ","c","a","p","i","t","a"," ","p","e","r","s","o","n","a","l"," ","i","n","c","o","m","e"," ","(","d","o","l","l","a","r","s",")"," ","2","/">>, 45, Some(<<"4","9">>)) >>

IncomeRowsBadCode ==
    << IncomeRows[1],
       BeaRow(Some(<<" ","\"","1","2","a","b","1","\"">>), <<"P","e","r"," ","c","a","p","i","t","a"," ","p","e","r","s","o","n","a","l"," ","i","n","c","o","m","e"," ","(","d","o","l","l","a","r","s",")"," ","2","/">>, 30, Some(<<"3","4">>)) >>

IncomeFiles ==
    { BeaFile(IncomeRows, YearLabels), BeaFile(IncomeRows, <<"2022", "2023">>),
      BeaFile(IncomeRows, <<"2022">>), BeaFile(IncomeRows, <<>>),
      BeaFile(IncomeRowsRepeated, YearLabels), BeaFile(IncomeRowsBadCode, YearLabels) }

GdpRows ==
    << BeaRow(Some(<<" ","\"","1","2","0","0","1","\"">>), <<"A","l","l"," ","i","n","d","u","s","t","r","y"," ","t","o","t","a","l">>, 70, Some(<<"7","4">>)),
       BeaRow(Some(<<" ","\"","1","2","0","0","1","\"">>), <<" ","P","r","i","v","a","t","e"," ","i","n","d","u","s","t","r","i","e","s">>, 80, Some(<<"8","4">>)) >>

GdpFiles == { BeaFile(GdpRows, YearLabels), BeaFile(GdpRows, <<"2016", "2018">>) }

\* CAINC4 rows
EmploymentRows ==
    << BeaRow(Some(<<" ","\"","1","2","0","0","1","\"">>), <<"T","o","t","a","l"," ","e","m","p","l","o","y","m","e","n","t"," ","(","n","u","m","b","e","r"," ","o","f"," ","j","o","b","s",")">>, 20, Some(<<"2","4">>)),
       BeaRow(Some(<<" ","\"","1","2","0","0","3","\"">>), <<"W","a","g","e"," ","a","n","d"," ","s","a","l","a","r","y"," ","e","m","p","l","o","y","m","e","n","t">>, 30, Some(<<"3","4">>)) >>

CensusRow(geo, cols, vals) ==
    [c \in {"GEO_ID"} \cup Range(cols) |->
        IF c = "GEO_ID" THEN Some(geo) ELSE vals[CHOOSE k \in 1..Len(cols) : cols[k] = c]]

CensusFile(cols, geos, vals) ==
    Table(<<"GEO_ID">> \o cols, [n \in 1..Len(geos) |-> CensusRow(geos[n], cols, vals[n])])

\* the acs_2020 directory: empty, or its files; the income file repeats a county
CensusDirs ==
    { [f \in {"median_household_income_2020", "total_population_2020",
              "educational_attainment_2020"} |-> None],
      [median_household_income_2020 |->
          Some(CensusFile(<<"B19013_001E", "B19013_001M">>,
                << <<"0","5","0","0","0","0","0","U","S","1","2","0","0","1">>, <<"0","5","0","0","0","0","0","U","S","1","2","0","0","1">>, <<"0","4","0","0","0","0","0","U","S","1","2">> >>,
                << <<Some(<<"5","0","0">>), Some(<<"9">>)>>, <<Some(<<"5","1","0">>), Some(<<"9">>)>>,
                   <<Some(<<"6","0","0">>), Some(<<"9">>)>> >>)),
       total_population_2020 |->
          Some(CensusFile(<<"B01003_001E">>,
                << <<"0","5","0","0","0","0","0","U","S","1","2","0","0","1">>, <<"0","5","0","0","0","0","0","U","S","1","2","0","0","3">> >>,
                << <<Some(<<"2","5","0">>)>>, <<Some(<<"-">>)>> >>)),
       educational_attainment_2020 |->
          Some(CensusFile(<<"B15003_001E", "B15003_022E", "B15003_023E">>,
                << <<"0","5","0","0","0","0","0","U","S","1","2","0","0","3">> >>,
                << <<Some(<<"3","0","0">>), Some(<<"4","0">>), Some(<<"7">>)>> >>))] }

UsdaRow(f, attr, value) ==
    [FIPS |-> f, State |-> Some("FL"), County_Name |-> Some("County"),
     Attribute |-> Some(attr), Value |-> Some(value)]

UsdaLongColumns == <<"FIPS", "State", "County_Name", "Attribute", "Value">>

\* the USDA file in long form: codes of two counties, other attributes,
\* another state, a row without FIPS
UsdaLongRows ==
    << UsdaRow(Some(12001), <<"P","o","p","u","l","a","t","i","o","n","_","2","0","2","0">>, <<"2","7","8">>),
       UsdaRow(Some(12001), <<"R","U","C","C","_","2","0","2","3">>, <<"2">>),
       UsdaRow(Some(12001), <<"D","e","s","c","r","i","p","t","i","o","n","_","2","0","2","3">>, <<"M","e","t","r","o">>),
       UsdaRow(Some(12003), <<"R","U","C","C","_","2","0","2","3">>, <<"8">>),
       UsdaRow(Some(1001), <<"R","U","C","C","_","2","0","2","3">>, <<"5">>),
       UsdaRow(NaN, <<"R","U","C","C","_","2","0","2","3">>, <<"9">>) >>

\* a USDA file with codes at the ends of each band of the scale, codes off
\* the scale and a Value that is no number
UsdaScaleRows ==
    << UsdaRow(Some(12001), <<"R","U","C","C","_","2","0","2","3">>, <<"1">>),
       UsdaRow(Some(12001), <<"R","U","C","C","_","2","0","2","3">>, <<"3">>),
       UsdaRow(Some(12001), <<"R","U","C","C","_","2","0","2","3">>, <<"4">>),
       UsdaRow(Some(12001), <<"R","U","C","C","_","2","0","2","3">>, <<"7">>),
       UsdaRow(Some(12003), <<"R","U","C","C","_","2","0","2","3">>, <<"9">>),
       UsdaRow(Some(12003), <<"R","U","C","C","_","2","0","2","3">>, <<"1","0">>),
       UsdaRow(Some(12003), <<"R","U","C","C","_","2","0","2","3">>, <<"0">>),
       UsdaRow(Some(12003), <<"R","U","C","C","_","2","0","2","3">>, <<"n","/","a">>) >>

UsdaFilesTemporal ==
    { Table(UsdaLongColumns, UsdaLongRows), Table(UsdaLongColumns, UsdaScaleRows) }

OrNone(S) == {None} \cup {Some(t) : t \in S}

InitTemporal ==
    /\ script = "temporal_matching"
    /\ pc = "load_election_data"
    /\ trace = ""
    /\ \E e \in OrNone(CleanedFiles), i \in OrNone(IncomeFiles),
          g \in {Some(t) : t \in GdpFiles},
          c \in CensusDirs, u \in OrNone(UsdaFilesTemporal) :
            fs = [f \in FileNames |->
                    CASE f = "Elections_Cleaned_with_FIPS" -> e
                      [] f = "CAINC1_FL_1969_2023" -> i
                      [] f = "CAGDP2_FL_2001_2023" -> g
                      [] f \in DOMAIN c -> c[f]
                      [] f = "Ruralurbancontinuumcodes2023" -> u
                      [] OTHER -> None]
    /\ elections = None /\ df = None
    /\ prev = <<>>
    /\ fips = None /\ issues = <<>> /\ qc_df = None /\ unmatched = None
    /\ census = None /\ bea = None /\ integrated = None
    /\ master = None /\ usda = None /\ usda_codes = None

temporalFrame == <<script, cleanLocals, integLocals, integrated, usdaLocals>>

\* elections = load_election_data(): read_csv raises when the file is absent,
\* elections['Year'] raises when the table has no Year column
Temporal_load_election_data ==
    /\ script = "temporal_matching" /\ pc = "load_election_data"
    /\ IF fs["Elections_Cleaned_with_FIPS"] = None
          \/ "Year" \notin ColSet(Val(fs["Elections_Cleaned_with_FIPS"]))
       THEN pc' = "except" /\ trace' = "load_election_data" /\ UNCHANGED elections
       ELSE /\ pc' = "process_bea_temporal"
            /\ elections' = fs["Elections_Cleaned_with_FIPS"]
            /\ UNCHANGED trace
    /\ UNCHANGED <<fs, df, prev, temporalFrame>>

\* df = process_bea_temporal(elections)
Temporal_process_bea_temporal ==
    /\ script = "temporal_matching" /\ pc = "process_bea_temporal"
    /\ LET r == process_bea_temporal(Val(elections), fs["CAINC1_FL_1969_2023"],
                                     fs["CAGDP2_FL_2001_2023"])
       IN  IF r.raised
           THEN pc' = "except" /\ trace' = "process_bea_temporal" /\ UNCHANGED df
           ELSE pc' = "add_census_data" /\ df' = Some(r.value) /\ UNCHANGED trace
    /\ prev' = Append(prev, Val(elections))
    /\ UNCHANGED <<fs, elections, temporalFrame>>

\* df = add_census_data(df)
Temporal_add_census_data ==
    /\ script = "temporal_matching" /\ pc = "add_census_data"
    /\ LET r == add_census_data(Val(df), fs)
       IN  IF r.raised
           THEN pc' = "except" /\ trace' = "add_census_data" /\ UNCHANGED df
           ELSE pc' = "add_usda_codes" /\ df' = Some(r.value) /\ UNCHANGED trace
    /\ prev' = Append(prev, Val(df))
    /\ UNCHANGED <<fs, elections, temporalFrame>>

\* df = add_usda_codes(df)
Temporal_add_usda_codes ==
    /\ script = "temporal_matching" /\ pc = "add_usda_codes"
    /\ df' = Some(add_usda_codes(Val(df), fs["Ruralurbancontinuumcodes2023"]))
    /\ pc' = "save_and_summarize"
    /\ prev' = Append(prev, Val(df))
    /\ UNCHANGED <<trace, fs, elections, temporalFrame>>

\* output_file = save_and_summarize(df): to_csv, then the summaries
Temporal_save_and_summarize ==
    /\ script = "temporal_matching" /\ pc = "save_and_summarize"
    /\ fs' = [fs EXCEPT !["Master_Dataset_Temporal_Matched"] = df]
    /\ IF SummarizeRaises(Val(df))
       THEN pc' = "except" /\ trace' = "save_and_summarize"
       ELSE pc' = "done" /\ UNCHANGED trace
    /\ UNCHANGED <<elections, df, prev, temporalFrame>>

NextTemporal ==
    \/ Temporal_load_election_data
    \/ Temporal_process_bea_temporal
    \/ Temporal_add_census_data
    \/ Temporal_add_usda_codes
    \/ Temporal_save_and_summarize

SpecTemporal == InitTemporal /\ [][NextTemporal]_vars

----------------------------------------------------------------------------
(* Temporal alignment: C1, C3, C4 *)

\* the table process_bea_temporal was called with, and what it returned
BeaCalled == script = "temporal_matching" /\ pc = "add_census_data"
BeaArg == prev[1]
BeaOut == Val(df)

\* row o of table t, cut down to the columns cs
Project(row, cs) == [c \in cs |-> row[c]]

\* how many rows of t equal r on the columns cs
CountRows(t, r, cs) == Cardinality({i \in 1..NRows(t) : Project(t.rows[i], cs) = r})

\* C1: every record of the election table given to process_bea_temporal is in
\* the table it returns, at least as often as in the input, whatever its Year
C1_NoRecordDropped ==
    BeaCalled =>
        \A i \in 1..NRows(BeaArg) :
            CountRows(BeaOut, BeaArg.rows[i], ColSet(BeaArg))
                >= CountRows(BeaArg, BeaArg.rows[i], ColSet(BeaArg))

MappedYears == {2016, 2018, 2020, 2022, 2024}

\* the label a mapped election year is aligned to
LabelOfYear(y) ==
    CASE y = 2016 -> "2016" [] y = 2018 -> "2018" [] y = 2020 -> "2020"
      [] y = 2022 -> "2022" [] y = 2024 -> "2023"

\* the cell of output row o under name is what the source lines hold for o's
\* FIPS in the column of o's year, made numeric; null when no line has the FIPS
AlignedCell(o, name, lines) ==
    LET src == Val(lines)
        label == LabelOfYear(Val(o["Year"]))
        hits == {j \in 1..NRows(src) : src.rows[j]["FIPS"] = o["FIPS"]}
    IN  label \in ColSet(src) =>
            /\ name \in DOMAIN o
            /\ IF hits = {} THEN o[name] = NaN
               ELSE \E j \in hits : o[name] = ToNumeric(src.rows[j][label])

\* C3: a record of a mapped year y with FIPS f carries the income and the GDP
\* that the source row of f holds in the column labelled mapping[y]; a 2024
\* record of county 12001 carries the "2023" values (44 and 74), not the
\* "2022" values (43 and 73)
C3_AlignedToMappedYear ==
    BeaCalled =>
        LET income == BeaLine(fs["CAINC1_FL_1969_2023"], PerCapitaLine)
            gdp == BeaLine(fs["CAGDP2_FL_2001_2023"], AllIndustryLine)
        IN  \A i \in 1..NRows(BeaOut) :
                LET o == BeaOut.rows[i] IN
                (notna(o["Year"]) /\ Val(o["Year"]) \in MappedYears) =>
                    /\ income # None => AlignedCell(o, "Per_Capita_Income", income)
                    /\ gdp # None => AlignedCell(o, "GDP_Millions", gdp)
                    /\ (/\ o["Year"] = Some(2024) /\ o["FIPS"] = Some(12001)
                        /\ fs["CAINC1_FL_1969_2023"]
                             \in {Some(BeaFile(IncomeRows, YearLabels)),
                                  Some(BeaFile(IncomeRows, <<"2022", "2023">>))})
                       => o["Per_Capita_Income"] = Some(44)
                    /\ (/\ o["Year"] = Some(2024) /\ o["FIPS"] = Some(12001)
                        /\ fs["CAGDP2_FL_2001_2023"] = Some(BeaFile(GdpRows, YearLabels)))
                       => o["GDP_Millions"] = Some(74)

\* a 2022 and a 2024 record of one county, aligned to different columns of a
\* source that has both
C3_Witness ==
    /\ BeaCalled
    /\ fs["CAINC1_FL_1969_2023"] = Some(BeaFile(IncomeRows, <<"2022", "2023">>))
    /\ fs["CAGDP2_FL_2001_2023"] = Some(BeaFile(GdpRows, YearLabels))
    /\ \E i, j \in 1..NRows(BeaOut) :
        /\ BeaOut.rows[i]["Year"] = Some(2022) /\ BeaOut.rows[i]["FIPS"] = Some(12001)
        /\ BeaOut.rows[i]["Per_Capita_Income"] = Some(43)
        /\ BeaOut.rows[j]["Year"] = Some(2024) /\ BeaOut.rows[j]["FIPS"] = Some(12001)
        /\ BeaOut.rows[j]["Per_Capita_Income"] = Some(44)
        /\ BeaOut.rows[j]["GDP_Millions"] = Some(74)

\* the run has an election table with Year and FIPS and a usable income file
IncomeReadable ==
    /\ script = "temporal_matching"
    /\ fs["Elections_Cleaned_with_FIPS"] # None
    /\ {"Year", "FIPS"} \subseteq ColSet(Val(fs["Elections_Cleaned_with_FIPS"]))
    /\ BeaLine(fs["CAINC1_FL_1969_2023"], PerCapitaLine) # None

\* C4: whichever mapped labels the income file lacks, the output has the
\* Per_Capita_Income field, null for the records whose label is absent, and
\* the run does not end in the exception handler
C4_AbsentLabelGivesNull ==
    IncomeReadable =>
        /\ pc # "except"
        /\ BeaCalled =>
            /\ "Per_Capita_Income" \in ColSet(BeaOut)
            /\ \A i \in 1..NRows(BeaOut) :
                LET o == BeaOut.rows[i] IN
                (/\ notna(o["Year"]) /\ Val(o["Year"]) \in MappedYears
                 /\ LabelOfYear(Val(o["Year"])) \notin ColSet(Val(fs["CAINC1_FL_1969_2023"])))
                    => o["Per_Capita_Income"] = NaN

----------------------------------------------------------------------------
(* The geography filter of the BEA adapter *)

IncomeSource == Val(fs["CAINC1_FL_1969_2023"])

\* a geography code that names a county of the state: stripped of whitespace
\* and quotes it has five characters, all digits, begins with 12 and is not
\* 12000
NamesCounty(cell) ==
    /\ notna(cell)
    /\ LET s == StrStrip(StrStrip(StrStrip(Val(cell), Whitespace), {"\""}), Whitespace)
       IN  /\ Len(s) = 5
           /\ IsNumeral(s)
           /\ SubSeq(s, 1, 2) = <<"1", "2">>
           /\ s # <<"1", "2", "0", "0", "0">>

\* the per-capita-income rows of the income file that name county f
CountyIncomeRows(f) ==
    {j \in 1..NRows(IncomeSource) :
        /\ NamesCounty(IncomeSource.rows[j]["GeoFIPS"])
        /\ FIPSOf(IncomeSource.rows[j]) = f
        /\ ContainsNoCase(CellStrip(IncomeSource.rows[j]["Description"]), PerCapitaLine)}

\* the income file can be read and has the two columns the adapter filters on
IncomeFiltered ==
    /\ BeaCalled
    /\ fs["CAINC1_FL_1969_2023"] # None
    /\ {"GeoFIPS", "Description"} \subseteq ColSet(IncomeSource)

\* C25: a row of the income file gives a county its value exactly when its
\* geography code, stripped, is five digits beginning with 12 and is not
\* 12000, whatever the other rows of the file hold: a record of a mapped year
\* carries the value of such a row of its FIPS, and null when there is none.
C25_GeographyFilter ==
    IncomeFiltered =>
        \A i \in 1..NRows(BeaOut) :
            LET o == BeaOut.rows[i] IN
            (/\ notna(o["Year"]) /\ Val(o["Year"]) \in MappedYears
             /\ LabelOfYear(Val(o["Year"])) \in ColSet(IncomeSource))
            => /\ "Per_Capita_Income" \in ColSet(BeaOut)
               /\ IF CountyIncomeRows(o["FIPS"]) = {} THEN isna(o["Per_Capita_Income"])
                  ELSE \E j \in CountyIncomeRows(o["FIPS"]) :
                        o["Per_Capita_Income"]
                            = ToNumeric(IncomeSource.rows[j][LabelOfYear(Val(o["Year"]))])

\* what the code does: the filter keeps every five-character code that
\* begins with 12 and is not 12000; when one of them is not a numeral,
\* astype(int) raises and the file gives no income to any record
NonNumericCodeLosesSource ==
    IncomeFiltered =>
        IF AsTypeIntRaises(IncomeSource)
        THEN "Per_Capita_Income" \notin ColSet(BeaOut)
        ELSE \A j \in 1..NRows(IncomeSource) :
                NamesCounty(IncomeSource.rows[j]["GeoFIPS"]) <=> j \in CountyRows(IncomeSource)

\* the file holds the rows of 12001 and of "12ab1": the 2022 record of 12001
\* is returned without an income
IncomeLostToBadCode ==
    /\ IncomeFiltered
    /\ IncomeSource = BeaFile(IncomeRowsBadCode, YearLabels)
    /\ NRows(BeaOut) = 1
    /\ BeaOut.rows[1]["FIPS"] = Some(12001) /\ BeaOut.rows[1]["Year"] = Some(2022)
    /\ CountyIncomeRows(Some(12001)) = {1}
    /\ "Per_Capita_Income" \notin ColSet(BeaOut)

----------------------------------------------------------------------------
(* data_integration.py: main() *)

\* the cleaned files this script may find, one of them without County
IntegrationElectionFiles ==
    CleanedFiles
    \cup {DropColumn(Table(CleanedColumns, <<CRow(Some(12001), <<"A","l","a","c","h","u","a">>, Some(2024))>>),
                     "County")}

AgeFiles ==
    { CensusFile(<<"B01002_001E">>, << <<"0","5","0","0","0","0","0","U","S","1","2","0","0","1">>, <<"0","5","0","0","0","0","0","U","S","1","2","0","0","5">> >>,
                 << <<Some(<<"3","1">>)>>, <<Some(<<"4","0">>)>> >>) }

IntegrationIncomeFiles ==
    { BeaFile(IncomeRows, YearLabels), BeaFile(IncomeRowsRepeated, <<"2016", "2022">>) }

InitIntegration ==
    /\ script = "data_integration"
    /\ pc = "load_election_data"
    /\ trace = ""
    /\ \E e \in OrNone(IntegrationElectionFiles), c \in CensusDirs, a \in OrNone(AgeFiles),
          i \in OrNone(IntegrationIncomeFiles), m \in OrNone({BeaFile(EmploymentRows, YearLabels)}) :
            fs = [f \in FileNames |->
                    CASE f = "Elections_Cleaned_with_FIPS" -> e
                      [] f \in DOMAIN c -> c[f]
                      [] f = "sex_by_age_2020" -> a
                      [] f = "CAINC1_FL_1969_2023" -> i
                      [] f = "CAGDP2_FL_2001_2023" -> Some(BeaFile(GdpRows, YearLabels))
                      [] f = "CAINC4_FL_1969_2023" -> m
                      [] OTHER -> None]
    /\ elections = None /\ df = None
    /\ prev = <<>>
    /\ fips = None /\ issues = <<>> /\ qc_df = None /\ unmatched = None
    /\ census = None /\ bea = None /\ integrated = None
    /\ master = None /\ usda = None /\ usda_codes = None

integrationFrame == <<script, cleanLocals, usdaLocals, df, prev>>

\* elections = load_election_data(): read_csv raises when the file is absent,
\* elections['Year'] and elections['County'] when the column is
Integration_load_election_data ==
    /\ script = "data_integration" /\ pc = "load_election_data"
    /\ IF fs["Elections_Cleaned_with_FIPS"] = None
          \/ ~({"Year", "County"} \subseteq ColSet(Val(fs["Elections_Cleaned_with_FIPS"])))
       THEN pc' = "except" /\ trace' = "load_election_data" /\ UNCHANGED elections
       ELSE /\ pc' = "process_census_data"
            /\ elections' = fs["Elections_Cleaned_with_FIPS"]
            /\ UNCHANGED trace
    /\ UNCHANGED <<fs, census, bea, integrated, integrationFrame>>

\* census = process_census_data()
Integration_process_census_data ==
    /\ script = "data_integration" /\ pc = "process_census_data"
    /\ census' = process_census_data(fs)
    /\ pc' = "process_bea_data"
    /\ UNCHANGED <<trace, fs, elections, bea, integrated, integrationFrame>>

\* bea = process_bea_data()
Integration_process_bea_data ==
    /\ script = "data_integration" /\ pc = "process_bea_data"
    /\ bea' = process_bea_data(fs)
    /\ pc' = "integrate_all_data"
    /\ UNCHANGED <<trace, fs, elections, census, integrated, integrationFrame>>

\* integrated = integrate_all_data(elections, census, bea)
Integration_integrate_all_data ==
    /\ script = "data_integration" /\ pc = "integrate_all_data"
    /\ LET r == integrate_all_data(Val(elections), census, bea)
       IN  IF r.raised
           THEN pc' = "except" /\ trace' = "integrate_all_data" /\ UNCHANGED integrated
           ELSE pc' = "create_analysis_summary" /\ integrated' = Some(r.value)
                /\ UNCHANGED trace
    /\ UNCHANGED <<fs, elections, census, bea, integrationFrame>>

\* create_analysis_summary(integrated): prints; its own try covers the
\* correlations, and Year is a column since load_election_data read it
Integration_create_analysis_summary ==
    /\ script = "data_integration" /\ pc = "create_analysis_summary"
    /\ pc' = "save_integrated_data"
    /\ UNCHANGED <<trace, fs, elections, census, bea, integrated, integrationFrame>>

\* save_integrated_data(integrated): the master file and its 2024 rows
Integration_save_integrated_data ==
    /\ script = "data_integration" /\ pc = "save_integrated_data"
    /\ fs' = [fs EXCEPT !["Master_Dataset_Integrated"] = integrated,
                        !["Analysis_Dataset_2024"] = Some(Rows2024(Val(integrated)))]
    /\ pc' = "done"
    /\ UNCHANGED <<trace, elections, census, bea, integrated, integrationFrame>>

NextIntegration ==
    \/ Integration_load_election_data
    \/ Integration_process_census_data
    \/ Integration_process_bea_data
    \/ Integration_integrate_all_data
    \/ Integration_create_analysis_summary
    \/ Integration_save_integrated_data

SpecIntegration == InitIntegration /\ [][NextIntegration]_vars

----------------------------------------------------------------------------
(* add_usda_codes.py: main() *)

MasterColumns == CleanedColumns \o <<"Total_Population">>

MRow(f, county, year, pop) ==
    [c \in Range(MasterColumns) |->
        IF c = "Total_Population" THEN pop ELSE CRow(f, county, year)[c]]

MasterRows ==
    { MRow(Some(12001), <<"A","l","a","c","h","u","a">>, Some(2024), Some(250)),
      MRow(Some(12001), <<"A","l","a","c","h","u","a">>, Some(2022), Some(250)),
      MRow(Some(12003), <<"B","a","k","e","r">>, Some(2024), NaN),
      MRow(NaN, <<"A","t","l","a","n","t","i","s">>, Some(2024), NaN) }

\* Master_Dataset_Integrated.csv: every table of up to MaxElectionRows rows,
\* and one-row tables written without the Census or the FIPS column
MasterFiles ==
    {Table(MasterColumns, rs) : rs \in SeqsUpTo(MasterRows, MaxElectionRows)}
    \cup {DropColumn(Table(MasterColumns, <<MRow(Some(12001), <<"A","l","a","c","h","u","a">>, Some(2024), NaN)>>), c) :
            c \in {"Total_Population", "FIPS"}}

\* the USDA file in long form with an older code listed first
UsdaOlderFirstRows ==
    << UsdaRow(Some(12001), <<"R","U","C","C","_","2","0","1","3">>, <<"3">>),
       UsdaRow(Some(12001), <<"R","U","C","C","_","2","0","2","3">>, <<"2">>),
       UsdaRow(Some(12003), <<"R","U","C","C","_","2","0","2","3">>, <<"8">>),
       UsdaRow(Some(12003), <<"R","U","C","C","_","2","0","2","3">>, <<"9">>) >>

UsdaNoCodeRows ==
    << UsdaRow(Some(12001), <<"P","o","p","u","l","a","t","i","o","n","_","2","0","2","0">>, <<"2","7","8">>),
       UsdaRow(Some(12003), <<"D","e","s","c","r","i","p","t","i","o","n","_","2","0","2","3">>, <<"N","o","n","m","e","t","r","o">>) >>

WideRow(f, name, code) ==
    [FIPS |-> f, State |-> Some("FL"), County_Name |-> Some(name), RUCC_2023 |-> code]

\* the USDA file in wide form: one row per county, the code a number
UsdaWide ==
    Table(<<"FIPS", "State", "County_Name", "RUCC_2023">>,
          << WideRow(Some(12001), "Alachua County", Some(2)),
             WideRow(Some(12003), "Baker County", NaN),
             WideRow(Some(13001), "Appling County", Some(7)),
             WideRow(NaN, "Total", Some(1)) >>)

UsdaFiles ==
    { Table(UsdaLongColumns, UsdaLongRows),
      Table(UsdaLongColumns, UsdaScaleRows),
      Table(UsdaLongColumns, UsdaOlderFirstRows),
      Table(UsdaLongColumns, UsdaNoCodeRows),
      DropColumn(Table(UsdaLongColumns, UsdaLongRows), "FIPS"),
      DropColumn(Table(UsdaLongColumns, UsdaLongRows), "County_Name"),
      UsdaWide,
      DropColumn(UsdaWide, "RUCC_2023") }

InitUsda ==
    /\ script = "add_usda_codes"
    /\ pc = "load_data"
    /\ trace = ""
    /\ \E m \in OrNone(MasterFiles), u \in OrNone(UsdaFiles) :
            fs = [f \in FileNames |->
                    CASE f = "Master_Dataset_Integrated" -> m
                      [] f = "Ruralurbancontinuumcodes2023" -> u
                      [] OTHER -> None]
    /\ elections = None /\ df = None
    /\ prev = <<>>
    /\ fips = None /\ issues = <<>> /\ qc_df = None /\ unmatched = None
    /\ census = None /\ bea = None /\ integrated = None
    /\ master = None /\ usda = None /\ usda_codes = None

usdaFrame == <<script, cleanLocals, integLocals, elections, df, prev>>

\* master, usda = load_data(): read_csv raises when either file is absent
Usda_load_data ==
    /\ script = "add_usda_codes" /\ pc = "load_data"
    /\ IF fs["Master_Dataset_Integrated"] = None \/ fs["Ruralurbancontinuumcodes2023"] = None
       THEN pc' = "except" /\ trace' = "load_data" /\ UNCHANGED <<master, usda>>
       ELSE /\ pc' = "process_usda_codes"
            /\ master' = fs["Master_Dataset_Integrated"]
            /\ usda' = fs["Ruralurbancontinuumcodes2023"]
            /\ UNCHANGED trace
    /\ UNCHANGED <<fs, usda_codes, integrated, usdaFrame>>

\* usda_codes = process_usda_codes(usda); usda gets the State_FIPS column
Usda_process_usda_codes ==
    /\ script = "add_usda_codes" /\ pc = "process_usda_codes"
    /\ LET r == process_usda_codes(Val(usda))
       IN  IF r.raised
           THEN pc' = "except" /\ trace' = "process_usda_codes" /\ UNCHANGED usda_codes
           ELSE pc' = "integrate_usda" /\ usda_codes' = r.value /\ UNCHANGED trace
    /\ usda' = IF "FIPS" \in ColSet(Val(usda)) THEN Some(WithStateFips(Val(usda))) ELSE usda
    /\ UNCHANGED <<fs, master, integrated, usdaFrame>>

\* integrated = integrate_usda(master, usda_codes)
Usda_integrate_usda ==
    /\ script = "add_usda_codes" /\ pc = "integrate_usda"
    /\ LET r == integrate_usda(Val(master), usda_codes)
       IN  IF r.raised
           THEN pc' = "except" /\ trace' = "integrate_usda" /\ UNCHANGED integrated
           ELSE pc' = "analyze_rural_urban_patterns" /\ integrated' = Some(r.value)
                /\ UNCHANGED trace
    /\ UNCHANGED <<fs, master, usda, usda_codes, usdaFrame>>

\* analyze_rural_urban_patterns(integrated)
Usda_analyze_rural_urban_patterns ==
    /\ script = "add_usda_codes" /\ pc = "analyze_rural_urban_patterns"
    /\ IF AnalyzeRaises(Val(integrated))
       THEN pc' = "except" /\ trace' = "analyze_rural_urban_patterns"
       ELSE pc' = "save_data" /\ UNCHANGED trace
    /\ UNCHANGED <<fs, master, usda, usda_codes, integrated, usdaFrame>>

\* save_data(integrated): the dataset and its 2024 rows
Usda_save_data ==
    /\ script = "add_usda_codes" /\ pc = "save_data"
    /\ fs' = [fs EXCEPT !["Master_Dataset_with_USDA"] = integrated,
                        !["Analysis_Dataset_2024_with_USDA"] = Some(Rows2024(Val(integrated)))]
    /\ pc' = "done"
    /\ UNCHANGED <<trace, master, usda, usda_codes, integrated, usdaFrame>>

NextUsda ==
    \/ Usda_load_data
    \/ Usda_process_usda_codes
    \/ Usda_integrate_usda
    \/ Usda_analyze_rural_urban_patterns
    \/ Usda_save_data

SpecUsda == InitUsda /\ [][NextUsda]_vars

----------------------------------------------------------------------------
(* The three enrichment scripts, whichever is run *)

InitEnrich == InitTemporal \/ InitIntegration \/ InitUsda

NextEnrich == NextTemporal \/ NextIntegration \/ NextUsda

SpecEnrich == InitEnrich /\ [][NextEnrich]_vars

----------------------------------------------------------------------------
(* The left joins of the enrichment tables: C2, C9 *)

\* m: how many rows of enrichment table x carry the FIPS of row
Matches(row, x) == Cardinality({j \in 1..NRows(x) : x.rows[j]["FIPS"] = row["FIPS"]})

\* max(1, m) for each table merged in turn, multiplied
RECURSIVE Copies(_, _)
Copies(row, xs) ==
    IF xs = <<>> THEN 1
    ELSE Max({1, Matches(row, Head(xs))}) * Copies(row, Tail(xs))

UniqueFips(x) ==
    \A i, j \in 1..NRows(x) : x.rows[i]["FIPS"] = x.rows[j]["FIPS"] => i = j

\* out holds each row of left max(1, m) times and nothing else
JoinMultiplicity(left, xs, out) ==
    /\ \A i \in 1..NRows(left) :
        CountRows(out, left.rows[i], ColSet(left))
            = CountRows(left, left.rows[i], ColSet(left)) * Copies(left.rows[i], xs)
    /\ \A n \in 1..NRows(out) :
        \E i \in 1..NRows(left) : Project(out.rows[n], ColSet(left)) = left.rows[i]
    /\ NRows(out) >= NRows(left)
    /\ (\A k \in 1..Len(xs) : UniqueFips(xs[k])) => NRows(out) = NRows(left)

\* the tables that are there, in order
Present(all) ==
    LET got == SortedSeq({k \in 1..Len(all) : all[k] # None})
    IN  [n \in 1..Len(got) |-> Val(all[got[n]])]

\* the merge sites: the script has just left the function that merges
CensusMerged == script = "temporal_matching" /\ pc = "add_usda_codes"
UsdaMerged == script = "temporal_matching" /\ pc = "save_and_summarize"
AllIntegrated == script = "data_integration" /\ pc = "create_analysis_summary"
UsdaIntegrated == script = "add_usda_codes" /\ pc = "analyze_rural_urban_patterns"

\* the code table add_usda_codes merged, if it got as far as the merge
UsdaMergedTables ==
    IF UsdaFails(prev[3], fs["Ruralurbancontinuumcodes2023"]) THEN <<>>
    ELSE << florida_rucc(Val(fs["Ruralurbancontinuumcodes2023"])) >>

\* C2: after add_census_data, add_usda_codes, integrate_all_data and
\* integrate_usda every left-hand row is in the output max(1, m) times, m the
\* number of enrichment rows with its FIPS: the left-hand rows exactly when
\* FIPS is unique on the right, never fewer rows otherwise
C2_LeftJoinMultiplicity ==
    /\ CensusMerged => JoinMultiplicity(prev[2], census_vars(fs), Val(df))
    /\ UsdaMerged => JoinMultiplicity(prev[3], UsdaMergedTables, Val(df))
    /\ AllIntegrated =>
        JoinMultiplicity(Val(elections), Present(<<census, bea>>), Val(integrated))
    /\ UsdaIntegrated => JoinMultiplicity(Val(master), <<Val(usda_codes)>>, Val(integrated))

\* integrate_all_data met a FIPS that the Census table and the BEA table each
\* carry twice, next to a record nothing matches
C2_Witness ==
    /\ AllIntegrated
    /\ census # None /\ bea # None
    /\ \E i, j \in 1..NRows(Val(elections)) :
        /\ Matches(Val(elections).rows[i], Val(census)) = 2
        /\ Matches(Val(elections).rows[i], Val(bea)) = 2
        /\ Matches(Val(elections).rows[j], Val(census)) = 0
    /\ NRows(Val(integrated)) > NRows(Val(elections))

\* the records without FIPS are all in out, and a row of out without FIPS
\* has every column that the merge added empty
NullKeyUnmatched(left, out) ==
    /\ \A i \in 1..NRows(left) :
        isna(left.rows[i]["FIPS"]) =>
            CountRows(out, left.rows[i], ColSet(left))
                = CountRows(left, left.rows[i], ColSet(left))
    /\ \A n \in 1..NRows(out) :
        isna(out.rows[n]["FIPS"]) =>
            \A c \in ColSet(out) \ ColSet(left) : isna(out.rows[n][c])

\* the records of the years the loop of process_bea_temporal visits
MappedRows(t) ==
    LET idx == SortedSeq({i \in 1..NRows(t) :
                    notna(t.rows[i]["Year"]) /\ Val(t.rows[i]["Year"]) \in MappedYears})
    IN  Table(t.cols, [n \in 1..Len(idx) |-> t.rows[idx[n]]])

\* C9: a record without FIPS that enters a merge with a BEA, Census or USDA
\* table is in the merge's output, with every enrichment field null
C9_NullKeyNeverMatches ==
    /\ (BeaCalled /\ "FIPS" \in ColSet(BeaArg)) => NullKeyUnmatched(MappedRows(BeaArg), BeaOut)
    /\ (CensusMerged /\ "FIPS" \in ColSet(prev[2])) => NullKeyUnmatched(prev[2], Val(df))
    /\ (UsdaMerged /\ "FIPS" \in ColSet(prev[3])) => NullKeyUnmatched(prev[3], Val(df))
    /\ (AllIntegrated /\ "FIPS" \in ColSet(Val(elections)))
        => NullKeyUnmatched(Val(elections), Val(integrated))
    /\ UsdaIntegrated => NullKeyUnmatched(Val(master), Val(integrated))

\* the USDA file has a code row without FIPS, the master a record without
\* FIPS and one that is matched
C9_Witness ==
    /\ UsdaIntegrated
    /\ fs["Ruralurbancontinuumcodes2023"] = Some(Table(UsdaLongColumns, UsdaLongRows))
    /\ \E i, j \in 1..NRows(Val(integrated)) :
        /\ isna(Val(integrated).rows[i]["FIPS"])
        /\ isna(Val(integrated).rows[i]["Rural_Urban_Code"])
        /\ Val(integrated).rows[j]["FIPS"] = Some(12001)
        /\ Val(integrated).rows[j]["Rural_Urban_Code"] = Some(2)

----------------------------------------------------------------------------
(* add_usda_codes.py: a USDA table without a code attribute or column *)

\* process_usda_codes has returned None: it found no RUCC attribute (long
\* form) and no RUCC column (wide form)
NoCodeFound ==
    /\ script = "add_usda_codes"
    /\ pc \notin {"load_data", "process_usda_codes"}
    /\ trace \notin {"load_data", "process_usda_codes"}
    /\ usda_codes = None

\* C19: when the adapter finds no RUCC attribute or column it produces no
\* data without raising, and the run goes on without the enrichment: nothing
\* raises, and the table it saves has every row of the master table.
C19_MissingSourceTolerated ==
    NoCodeFound =>
        /\ pc # "except"
        /\ pc = "done" =>
            /\ fs["Master_Dataset_with_USDA"] # None
            /\ Val(fs["Master_Dataset_with_USDA"]).rows = Val(master).rows

\* what the code does: the adapter returns None without raising, the merge
\* that follows raises on it, and the run ends without a saved table
NoCodeEndsRun ==
    NoCodeFound =>
        /\ pc \in {"integrate_usda", "except"}
        /\ pc = "except" => trace = "integrate_usda"
        /\ integrated = None
        /\ fs["Master_Dataset_with_USDA"] = None

NoCodeRunAborted ==
    /\ NoCodeFound
    /\ Val(fs["Ruralurbancontinuumcodes2023"]) = Table(UsdaLongColumns, UsdaNoCodeRows)
    /\ NRows(Val(master)) > 0
    /\ pc = "except" /\ trace = "integrate_usda"
    /\ fs["Master_Dataset_with_USDA"] = None

----------------------------------------------------------------------------
(* add_usda_codes.py: the attribute process_usda_codes takes its codes from *)

\* process_usda_codes has returned a code table made from a long-form file
LongCodesMade ==
    /\ script = "add_usda_codes"
    /\ pc \notin {"load_data", "process_usda_codes"}
    /\ usda_codes # None
    /\ {"Attribute", "Value"} \subseteq ColSet(Val(fs["Ruralurbancontinuumcodes2023"]))

UsdaSource == Val(fs["Ruralurbancontinuumcodes2023"])

\* C24: every Rural_Urban_Code of the code table of a long-form file is the
\* Value of a row of that FIPS whose Attribute is exactly RUCC_2023; a row of
\* another attribute, one whose name contains RUCC included, supplies none.
C24_OnlyExactAttribute ==
    LongCodesMade =>
        \A n \in 1..NRows(Val(usda_codes)) :
            notna(Val(usda_codes).rows[n]["Rural_Urban_Code"]) =>
                \E j \in 1..NRows(UsdaSource) :
                    /\ UsdaSource.rows[j]["Attribute"] = Some(<<"R","U","C","C","_","2","0","2","3">>)
                    /\ UsdaSource.rows[j]["FIPS"] = Val(usda_codes).rows[n]["FIPS"]
                    /\ ToNumeric(UsdaSource.rows[j]["Value"])
                        = Val(usda_codes).rows[n]["Rural_Urban_Code"]

\* what the code does: the codes are those of the first attribute of the
\* Florida rows whose name contains RUCC, whichever it is
CodesOfFirstRuccAttribute ==
    LongCodesMade =>
        \A n \in 1..NRows(Val(usda_codes)) :
            \E j \in 1..NRows(UsdaSource) :
                /\ UsdaSource.rows[j]["Attribute"] = rucc_attr(UsdaSource)
                /\ UsdaSource.rows[j]["FIPS"] = Val(usda_codes).rows[n]["FIPS"]
                /\ ToNumeric(UsdaSource.rows[j]["Value"])
                    = Val(usda_codes).rows[n]["Rural_Urban_Code"]

\* the file lists RUCC_2013 = 3 before RUCC_2023 = 2 for county 12001: the
\* code table holds 3 for it and nothing of RUCC_2023
OlderAttributeTaken ==
    /\ LongCodesMade
    /\ UsdaSource = Table(UsdaLongColumns, UsdaOlderFirstRows)
    /\ rucc_attr(UsdaSource) = Some(<<"R","U","C","C","_","2","0","1","3">>)
    /\ NRows(Val(usda_codes)) = 1
    /\ Val(usda_codes).rows[1]["FIPS"] = Some(12001)
    /\ Val(usda_codes).rows[1]["Rural_Urban_Code"] = Some(3)

----------------------------------------------------------------------------
(* The order of the merges: integrate_all_data, process_bea_temporal *)

\* a and b hold the same records: the same columns in any order, and every
\* row as often in one as in the other
SameRecords(a, b) ==
    /\ ColSet(a) = ColSet(b)
    /\ NRows(a) = NRows(b)
    /\ \A n \in 1..NRows(a) :
        CountRows(b, a.rows[n], ColSet(a)) = CountRows(a, a.rows[n], ColSet(a))

\* the variables of the two enrichment tables have different names, and none
\* is the name of an election field
DisjointNames(e, a, b) ==
    /\ Overlap(a, b, "FIPS", "FIPS") = {}
    /\ Overlap(e, a, "FIPS", "FIPS") = {}
    /\ Overlap(e, b, "FIPS", "FIPS") = {}

\* integrate_all_data with the BEA table merged before the Census table
BeaThenCensus == MergeIfAny(MergeIfAny(Val(elections), bea), census)

\* process_bea_temporal with each year's GDP merged before its income
GdpThenIncome ==
    LET income == BeaLine(fs["CAINC1_FL_1969_2023"], PerCapitaLine)
        gdp == BeaLine(fs["CAGDP2_FL_2001_2023"], AllIndustryLine)
        frames == [k \in 1..Len(year_mapping) |->
            MergeIfAny(
                MergeIfAny(RowsOfYear(BeaArg, year_mapping[k][1]),
                           BeaYear(gdp, year_mapping[k][2], "GDP_Millions")),
                BeaYear(income, year_mapping[k][2], "Per_Capita_Income"))]
    IN  PdConcat(SubSeq(frames, 1, Len(frames)))

\* C21: the table integrate_all_data returns (Census merged, then BEA) holds
\* the same records as the one that merging BEA, then Census gives, and the
\* table process_bea_temporal returns (income, then GDP, year by year) the
\* same records as merging GDP, then income: the same rows with the same
\* values, whatever the order of the columns and of the rows.
C21_MergeOrderIrrelevant ==
    /\ (AllIntegrated /\ census # None /\ bea # None
            /\ DisjointNames(Val(elections), Val(census), Val(bea)))
        => SameRecords(Val(integrated), BeaThenCensus)
    /\ BeaCalled => SameRecords(BeaOut, GdpThenIncome)

\* both tables carry a FIPS of the election table twice: the two orders give
\* the same records in a different order of rows and of columns
C21_Witness ==
    /\ AllIntegrated /\ census # None /\ bea # None
    /\ DisjointNames(Val(elections), Val(census), Val(bea))
    /\ \E i \in 1..NRows(Val(elections)) :
        /\ Matches(Val(elections).rows[i], Val(census)) = 2
        /\ Matches(Val(elections).rows[i], Val(bea)) = 2
    /\ Val(integrated).cols # BeaThenCensus.cols
    /\ Val(integrated).rows # BeaThenCensus.rows
    /\ SameRecords(Val(integrated), BeaThenCensus)

\* process_bea_temporal merged an income and a GDP value onto a record
MergeOrderTemporalReached ==
    /\ BeaCalled
    /\ \E n \in 1..NRows(BeaOut) :
        /\ {"Per_Capita_Income", "GDP_Millions"} \subseteq ColSet(BeaOut)
        /\ notna(BeaOut.rows[n]["Per_Capita_Income"])
        /\ notna(BeaOut.rows[n]["GDP_Millions"])
    /\ BeaOut.cols # GdpThenIncome.cols

----------------------------------------------------------------------------
(* The columns after the merges *)

\* the variables an enrichment table carries
Vars(x) == ColSet(x) \ {"FIPS"}

\* the variables of the tables of xs together
VarsOfAll(xs) == UNION {Vars(xs[k]) : k \in 1..Len(xs)}

\* out has the columns of left, under their names and in their order, and
\* besides them the columns named in produced, and no other
ColumnsAre(left, produced, out) ==
    /\ ColSet(out) = ColSet(left) \cup produced
    /\ SeqFilter(out.cols, ColSet(left)) = left.cols

\* the variables process_bea_temporal produced for at least one election year
BeaProduced ==
    LET income == BeaLine(fs["CAINC1_FL_1969_2023"], PerCapitaLine)
        gdp == BeaLine(fs["CAGDP2_FL_2001_2023"], AllIndustryLine)
    IN  {name \in {"Per_Capita_Income", "GDP_Millions"} :
            \E k \in 1..Len(year_mapping) :
                BeaYear(IF name = "GDP_Millions" THEN gdp ELSE income,
                        year_mapping[k][2], name) # None}

\* C22: the table integrate_all_data, process_bea_temporal and
\* add_census_data return has the election table's columns, unchanged, and
\* with them exactly the variables that a source produced; in
\* process_bea_temporal a variable produced for one election year only is a
\* column of the concatenated table.
C22_ColumnsAreFieldsPlusVariables ==
    /\ AllIntegrated =>
        ColumnsAre(Val(elections), VarsOfAll(Present(<<census, bea>>)), Val(integrated))
    /\ BeaCalled => ColumnsAre(BeaArg, BeaProduced, BeaOut)
    /\ CensusMerged => ColumnsAre(prev[2], VarsOfAll(census_vars(fs)), Val(df))

\* the income file has the column of 2022 alone, the GDP file those of 2016
\* and 2018, and the election table a 2022 and a 2024 record: both variables
\* are columns, the income null for 2024 and the GDP null throughout
C22_Witness ==
    /\ BeaCalled
    /\ fs["CAINC1_FL_1969_2023"] # None
    /\ Range(YearLabels) \cap ColSet(Val(fs["CAINC1_FL_1969_2023"])) = {"2022"}
    /\ Range(YearLabels) \cap ColSet(Val(fs["CAGDP2_FL_2001_2023"])) = {"2016", "2018"}
    /\ BeaProduced = {"Per_Capita_Income", "GDP_Millions"}
    /\ NRows(BeaOut) = 2
    /\ BeaOut.rows[1]["Year"] = Some(2022) /\ notna(BeaOut.rows[1]["Per_Capita_Income"])
    /\ BeaOut.rows[2]["Year"] = Some(2024) /\ isna(BeaOut.rows[2]["Per_Capita_Income"])
    /\ isna(BeaOut.rows[1]["GDP_Millions"])
    /\ ColSet(BeaOut) = ColSet(BeaArg) \cup {"Per_Capita_Income", "GDP_Millions"}

\* integrate_all_data with both tables: the election fields and seven variables
ColumnsAfterIntegration ==
    /\ AllIntegrated /\ census # None /\ bea # None
    /\ Cardinality(ColSet(Val(integrated))) > Cardinality(ColSet(Val(elections))) + 2

-----------------------------------------------------------------------------
(* clean_standardize.py: what quality_checks() leaves of the table it is given *)

HelperColumns == <<"Calculated_Turnout", "Turnout_Difference">>

\* C26: after quality_checks has returned, the table object the caller
\* passed in has the columns and the values it had before the call; it has
\* gained neither Calculated_Turnout nor Turnout_Difference.
C26_ArgumentUnchanged ==
    QcReturned =>
        /\ qc_df # None
        /\ Val(qc_df) = QcArg
        /\ ColSet(Val(qc_df)) \cap Range(HelperColumns) = {}

\* what the code does instead: the object passed in ends with both helper
\* columns after its own, its other cells as they were
ArgumentGainsHelperColumns ==
    QcReturned =>
        /\ qc_df # None
        /\ Val(qc_df).cols = QcArg.cols \o HelperColumns
        /\ NRows(Val(qc_df)) = NRows(QcArg)
        /\ \A i \in 1..NRows(QcArg) :
            /\ \A c \in ColSet(QcArg) : Val(qc_df).rows[i][c] = QcArg.rows[i][c]
            /\ Val(qc_df).rows[i]["Calculated_Turnout"] = Calculated_Turnout(QcArg.rows[i])
            /\ Val(qc_df).rows[i]["Turnout_Difference"] = Turnout_Difference(QcArg.rows[i])

\* a one-row table has been checked and its object carries a computed turnout
ArgumentChangedReached ==
    /\ QcReturned
    /\ NRows(QcArg) = 1
    /\ issues # <<>>
    /\ Val(qc_df) # QcArg
    /\ Val(qc_df).rows[1]["Calculated_Turnout"] # <<>>

-----------------------------------------------------------------------------
(* clean_standardize.py: the notice of add_fips_codes() about unmatched counties *)

\* add_fips_codes has been called and got as far as its merge
FipsMerged ==
    /\ script = "clean_standardize" /\ Len(prev) >= 2
    /\ fips # None
    /\ {"FIPS", "County_Name"} \subseteq ColSet(Val(fips))
    /\ "County" \in ColSet(FipsArg)

\* the County values of the records whose name no reference row has
NamesWithoutReference ==
    {FipsArg.rows[i]["County"] : i \in {k \in 1..NRows(FipsArg) :
        \A j \in 1..NRows(Val(fips)) :
            Val(fips).rows[j]["County_Name"] # FipsArg.rows[k]["County"]}}

ReportedCounties == IF unmatched = None THEN <<>> ELSE Val(unmatched).counties

\* C27: the counties add_fips_codes reports as unmatched are exactly the
\* distinct County names of the records whose name no reference row has, each
\* listed once; the number of records it reports is the number of rows it
\* returns without FIPS; nothing is reported when every name has a reference
\* row; and the call raises only for a missing field, never for what it reports.
C27_UnmatchedReport ==
    FipsMerged =>
        /\ Range(ReportedCounties) = NamesWithoutReference
        /\ \A j, k \in 1..Len(ReportedCounties) :
            ReportedCounties[j] = ReportedCounties[k] => j = k
        /\ (NamesWithoutReference = {}) = (unmatched = None)
        /\ (unmatched # None /\ trace # "add_fips_codes") =>
            Val(unmatched).records =
                Cardinality({i \in 1..NRows(Val(elections)) : isna(Val(elections).rows[i]["FIPS"])})
        /\ trace = "add_fips_codes" => ~(Range(ElectionColumns) \subseteq ColSet(FipsArg))

\* two records of one county that has no reference row:
\* the run went on to its end with the county reported once for two records
C27_Witness ==
    /\ FipsMerged
    /\ pc = "done"
    /\ NRows(FipsArg) = 2
    /\ FipsArg.rows[1]["County"] = FipsArg.rows[2]["County"]
    /\ NRows(Val(fips)) >= 1
    /\ unmatched # None
    /\ Len(Val(unmatched).counties) = 1
    /\ Val(unmatched).records = 2

\* a run in which every record has a reference row and nothing is reported
AllMatchedNothingReported ==
    /\ FipsMerged
    /\ pc = "done"
    /\ NRows(FipsArg) = 2
    /\ NamesWithoutReference = {}
    /\ unmatched = None

-----------------------------------------------------------------------------
(* add_usda_codes.py, temporal_matching.py: the rural-urban lookup *)

\* the tables of the state that carry codes with their labels
RuccTables ==
    (IF script = "add_usda_codes" /\ usda_codes # None THEN {Val(usda_codes)} ELSE {})
    \cup (IF UsdaIntegrated THEN {Val(integrated)} ELSE {})
    \cup (IF UsdaMerged /\ "Rural_Urban_Code" \in ColSet(Val(df)) THEN {Val(df)} ELSE {})

RuccRows == UNION {Range(t.rows) : t \in RuccTables}

RuccLookupUsdaReached ==
    /\ script = "add_usda_codes" /\ pc = "integrate_usda"
    /\ usda_codes # None
    /\ NRows(Val(usda_codes)) = 8
    /\ \E r \in RuccRows :
        /\ r["Rural_Urban_Code"] = Some(0)
        /\ r["Urban_Rural_Category"] = Some("Rural")
        /\ isna(r["Rural_Urban_Description"])
    /\ \E r \in RuccRows :
        /\ isna(r["Rural_Urban_Code"])
        /\ r["Urban_Rural_Category"] = None

============================================================================
